---- MODULE Spec2Model ----
(***************************************************************************)
(* A model of the cobs-ts constrained B-spline fitter: the Cobs instance   *)
(* (cobs.ts), the dense Matrix (matrix.ts) and the revised-simplex         *)
(* LPSolver (solver.ts).                                                   *)
(*                                                                         *)
(* Numbers.  A JavaScript number is modelled by an exact rational <<n, d>> *)
(* in lowest terms with d > 0, or by NaN == <<0, 0>> (what arithmetic on   *)
(* an `undefined` array read yields).  Arrays are functions on 0..len-1,   *)
(* as in the source.  Every rational the bounded model can produce has a   *)
(* denominator below 2^31, so a nonzero value has magnitude above 4e-10:   *)
(* the source's tolerance tests (|v| > 1e-10, v >= -1e-12, r < -1e-12,     *)
(* pivot < 1e-10) are decided exactly by the comparisons with zero written *)
(* next to each of them below.                                             *)
(***************************************************************************)
EXTENDS Integers, Sequences, FiniteSets, TLC

VARIABLES order, knots, calls

vars == <<order, knots, calls>>

-----------------------------------------------------------------------------
(* Arithmetic on JavaScript numbers *)

NaN == <<0, 0>>

IsNaN(a) == a[2] = 0

AbsI(i) == IF i < 0 THEN -i ELSE i

RECURSIVE Gcd(_, _)
Gcd(a, b) == IF b = 0 THEN a ELSE Gcd(b, a % b)

Num(i) == <<i, 1>>

Zero == <<0, 1>>

One == <<1, 1>>

Frac(n, d) ==
    IF d = 0 THEN NaN
    ELSE LET g == Gcd(AbsI(n), AbsI(d))
             s == IF d < 0 THEN -1 ELSE 1
         IN  <<s * (n \div g), s * (d \div g)>>

Neg(a) == <<-a[1], a[2]>>

Add(a, b) ==
    IF IsNaN(a) \/ IsNaN(b) THEN NaN
    ELSE IF a[1] = 0 THEN b
    ELSE IF b[1] = 0 THEN a
    ELSE IF a[2] = 1 /\ b[2] = 1 THEN <<a[1] + b[1], 1>>
    ELSE LET g == Gcd(a[2], b[2])
         IN  Frac(a[1] * (b[2] \div g) + b[1] * (a[2] \div g), (a[2] \div g) * b[2])

Sub(a, b) == Add(a, Neg(b))

Mul(a, b) ==
    IF IsNaN(a) \/ IsNaN(b) THEN NaN
    ELSE IF a[1] = 0 \/ b[1] = 0 THEN Zero
    ELSE IF a[2] = 1 /\ b[2] = 1 THEN <<a[1] * b[1], 1>>
    ELSE LET g1 == Gcd(AbsI(a[1]), b[2])
             g2 == Gcd(AbsI(b[1]), a[2])
         IN  <<(a[1] \div g1) * (b[1] \div g2), (a[2] \div g2) * (b[2] \div g1)>>

\* a / b; the source never divides by zero (every divisor is tested first)
Div(a, b) ==
    IF IsNaN(a) \/ IsNaN(b) \/ b[1] = 0 THEN NaN
    ELSE IF b[1] < 0 THEN Mul(a, <<-b[2], -b[1]>>)
    ELSE Mul(a, <<b[2], b[1]>>)

\* a < b; every comparison with NaN is false
Lt(a, b) == ~IsNaN(a) /\ ~IsNaN(b) /\ Sub(a, b)[1] < 0

Le(a, b) == ~IsNaN(a) /\ ~IsNaN(b) /\ Sub(a, b)[1] <= 0

Gt(a, b) == Lt(b, a)

Ge(a, b) == Le(b, a)

\* a !== b
Ne(a, b) == IsNaN(a) \/ IsNaN(b) \/ a # b

\* Math.abs
Abs(a) == <<AbsI(a[1]), a[2]>>

\* Math.max(0, a)
Max0(a) == IF IsNaN(a) THEN NaN ELSE IF a[1] < 0 THEN Zero ELSE a

\* Math.abs(v) > tol, for tol = 1e-10 (cobs.ts, matrix.ts) and 1e-12 (solver.ts)
AboveTol(v) == ~IsNaN(v) /\ v[1] # 0

\* Math.round(value * 1e12) / 1e12.  The rounding moves a value by at most 5e-13
\* and keeps NaN; it is exact on every value with at most 12 decimals.  The
\* model's rationals are kept exact (10^12 is beyond the integers TLC has), so
\* the model and the source differ by less than 1e-12 here.
Round12(v) == v

-----------------------------------------------------------------------------
(* Arrays and matrices (matrix.ts) *)

Len0(a) == Cardinality(DOMAIN a)

\* the array f with every entry computed (f @@ <<>> = f: an array literal of the
\* source holds values, not the expressions that produce them)
Eager(f) == f @@ <<>>

Arr(s) == Eager([i \in 0..(Len(s) - 1) |-> s[i + 1]])

Fill(n, v) == Eager([i \in 0..(n - 1) |-> v])

RECURSIVE SumTo(_, _)
SumTo(f, n) == IF n < 0 THEN Zero ELSE Add(SumTo(f, n - 1), f[n])

\* sum of the entries of an array of numbers, left to right
Sum(f) == SumTo(f, Len0(f) - 1)

\* the matrix of zeros that new Matrix({rows, cols, data: [], ...}) makes; it
\* may have no row
zeros(rows, cols) == [rows |-> rows, cols |-> cols, dense |-> Fill(rows, Fill(cols, Zero))]

get(M, i, j) == M.dense[i][j]

transpose(M) ==
    [rows |-> M.cols, cols |-> M.rows,
     dense |-> Eager([j \in 0..(M.cols - 1) |->
                  Eager([i \in 0..(M.rows - 1) |-> M.dense[i][j]])])]

\* LPSolver.dotProduct
dotProduct(x, y) == Sum(Eager([i \in DOMAIN x |-> Mul(x[i], y[i])]))

\* column j of M as an array (Matrix.getColumn, LPSolver.getColumn)
getColumn(M, j) == Eager([i \in 0..(M.rows - 1) |-> M.dense[i][j]])

\* Matrix.multiply(other: Matrix)
multiply(M, other) ==
    [rows |-> M.rows, cols |-> other.cols,
     dense |-> Eager([i \in 0..(M.rows - 1) |->
                  Eager([j \in 0..(other.cols - 1) |->
                     dotProduct(M.dense[i], getColumn(other, j))])])]

\* Matrix.multiply(other: number[]) and LPSolver.multiplyMatrixVector
multiplyMatrixVector(M, x) ==
    Eager([i \in 0..(M.rows - 1) |->
       Sum(Eager([j \in 0..(M.cols - 1) |-> Mul(M.dense[i][j], x[j])]))])

\* LPSolver.multiplyVectorMatrix
multiplyVectorMatrix(x, M) ==
    Eager([j \in 0..(M.cols - 1) |->
       Sum(Eager([i \in 0..(M.rows - 1) |-> Mul(x[i], M.dense[i][j])]))])

null == [rows |-> -1, cols |-> -1, dense |-> <<>>]

\* a search that would keep the diagonal entry as the pivot
PivotRowDiagonal(a, n, i, k, maxRow) == maxRow

\* the row k >= i whose entry in column i is largest in magnitude, the first on ties
RECURSIVE PivotRow(_, _, _, _, _)
PivotRow(a, n, i, k, maxRow) ==
    IF k >= n THEN maxRow
    ELSE IF Gt(Abs(a[k][i]), Abs(a[maxRow][i])) THEN PivotRow(a, n, i, k + 1, k)
    ELSE PivotRow(a, n, i, k + 1, maxRow)

\* one column of the forward elimination of inverse(), the pivot row maxRow
\* chosen: swap rows i and maxRow from column i on, then clear column i below
EliminateColumn(a, n, i, maxRow) ==
    LET sw == Eager([r \in 0..(n - 1) |->
                 IF r = i
                 THEN Eager([k \in 0..(2 * n - 1) |-> IF k >= i THEN a[maxRow][k] ELSE a[i][k]])
                 ELSE IF r = maxRow
                 THEN Eager([k \in 0..(2 * n - 1) |-> IF k >= i THEN a[i][k] ELSE a[maxRow][k]])
                 ELSE a[r]])
    IN  Eager([k \in 0..(n - 1) |->
           IF k <= i THEN sw[k]
           ELSE LET c == Neg(Div(sw[k][i], sw[i][i]))
                IN  Eager([j \in 0..(2 * n - 1) |->
                       IF j < i THEN sw[k][j]
                       ELSE IF j = i THEN Zero
                       ELSE Add(sw[k][j], Mul(c, sw[i][j]))])])

\* forward elimination of inverse(): columns i..n-1 of the augmented matrix;
\* no row at all when the largest pivot candidate is below 1e-10
RECURSIVE Eliminate(_, _, _)
Eliminate(a, n, i) ==
    IF i >= n THEN a
    ELSE LET maxRow == PivotRow(a, n, i, i + 1, i)
             maxEl == Abs(a[maxRow][i])
         IN  IF ~IsNaN(maxEl) /\ maxEl[1] = 0 THEN Fill(0, Zero)
             ELSE Eliminate(EliminateColumn(a, n, i, maxRow), n, i + 1)

\* back substitution of inverse(): rows i, i-1, ..., 0
RECURSIVE BackSubstitute(_, _, _)
BackSubstitute(a, n, i) ==
    IF i < 0 THEN a
    ELSE LET c == Div(One, a[i][i])
             rowi == Eager([j \in 0..(2 * n - 1) |->
                        IF j >= n THEN Mul(a[i][j], c) ELSE a[i][j]])
             nx == Eager([k \in 0..(n - 1) |->
                      IF k = i THEN rowi
                      ELSE IF k < i
                           THEN Eager([j \in 0..(2 * n - 1) |->
                                   IF j >= n THEN Sub(a[k][j], Mul(a[k][i], rowi[j]))
                                   ELSE a[k][j]])
                           ELSE a[k]])
         IN  BackSubstitute(nx, n, i - 1)

\* inverse() throws: the matrix is not square, or it has no row, and the Matrix
\* constructor refuses the empty array of the augmented matrix
inverseThrows(M) == M.rows # M.cols \/ M.rows = 0

\* Matrix.inverse of a square matrix
inverse(M) ==
    LET n == M.rows
        augmented == Eager([i \in 0..(n - 1) |-> Eager([j \in 0..(2 * n - 1) |->
                        IF j < n THEN M.dense[i][j] ELSE IF j - n = i THEN One ELSE Zero])])
        \* the right half of the augmented matrix after back substitution
        RightHalf(bs) ==
            [rows |-> n, cols |-> n,
             dense |-> Eager([i \in 0..(n - 1) |-> Eager([j \in 0..(n - 1) |-> bs[i][j + n]])])]
        Substituted(el) ==
            IF DOMAIN el = {} THEN null ELSE RightHalf(BackSubstitute(el, n, n - 1))
    IN  Substituted(Eliminate(augmented, n, 0))

\* one step of Greville's recursion: the pseudo-inverse P of columns 0..k-1 of A
\* extended by column k
GrevilleStep(A, P, k) ==
    LET m == A.rows
        \* d = P a_k, c = a_k - A_k d, b = c / (c.c) when c # 0 and
        \* d^T P / (1 + d.d) otherwise; the rows of P become P - d b^T, then b
        Extended(d, b) ==
            Eager([r \in 0..k |->
               IF r = k THEN b
               ELSE Eager([i \in 0..(m - 1) |-> Sub(P[r][i], Mul(d[r], b[i]))])])
        NewRow(d, c, cc) ==
            IF cc[1] # 0
            THEN Eager([i \in 0..(m - 1) |-> Div(c[i], cc)])
            ELSE Eager([i \in 0..(m - 1) |->
                    Div(Sum(Eager([r \in 0..(k - 1) |-> Mul(d[r], P[r][i])])),
                        Add(One, dotProduct(d, d)))])
        WithC(d, c) == Extended(d, NewRow(d, c, dotProduct(c, c)))
        WithD(ak, d) ==
            WithC(d, Eager([i \in 0..(m - 1) |->
                        Sub(ak[i], Sum(Eager([r \in 0..(k - 1) |-> Mul(A.dense[i][r], d[r])])))]))
        WithColumn(ak) == WithD(ak, Eager([r \in 0..(k - 1) |-> dotProduct(P[r], ak)]))
    IN  WithColumn(getColumn(A, k))

\* the rows of the pseudo-inverse of columns 0..k of A
RECURSIVE Greville(_, _)
Greville(A, k) ==
    IF k < 0 THEN <<>> ELSE GrevilleStep(A, Greville(A, k - 1), k)

\* a solve that would work on A A^T and return one entry per row of A
solveRows(A, b) == multiplyMatrixVector(multiply(A, transpose(A)), b)

\* Matrix.solve(b): (A^T A + lambda I)^-1 A^T b with lambda = 1e-10.  The ridge
\* is below the model's resolution: the model returns the limit of that value
\* as lambda -> 0+, which is inverse(A^T A) A^T b when A^T A is invertible and
\* the minimum-norm least-squares solution (Greville's recursion) when it is
\* singular; the source differs from it by a relative 1e-10.  With the ridge on
\* its diagonal A^T A is positive definite, so the source's `still singular'
\* throw is not reached.
solve(A, b) ==
    LET MinimumNorm(P) == Eager([r \in 0..(A.cols - 1) |-> dotProduct(P[r], b)])
        Solution(inv, ATb) ==
            IF inv.rows # -1 THEN multiplyMatrixVector(inv, ATb)
            ELSE MinimumNorm(Greville(A, A.cols - 1))
        WithTranspose(AT) == Solution(inverse(multiply(AT, A)), multiplyMatrixVector(AT, b))
    IN  WithTranspose(transpose(A))

-----------------------------------------------------------------------------
(* B-spline basis and design matrix (cobs.ts) *)

\* knots[i]; a read outside the array is `undefined', NaN in arithmetic
KnotAt(kn, i) == IF i \in DOMAIN kn THEN kn[i] ELSE NaN

\* Cobs.generateKnots(x), for this.order = ord
generateKnots(x, ord) ==
    LET n == Len0(x)
        min == x[0]
        max == x[n - 1]
        numInteriorKnots == n - (ord + 1)
        step == Div(Sub(x[n - 1], x[0]), Num(numInteriorKnots + 1))
        ni == IF numInteriorKnots > 0 THEN numInteriorKnots ELSE 0
    IN  Eager([i \in 0..(2 * (ord + 1) + ni - 1) |->
           IF i <= ord THEN min
           ELSE IF i <= ord + ni THEN Add(min, Mul(Num(i - ord), step))
           ELSE max])

\* the while loop of findSpan
RECURSIVE FindSpanLoop(_, _, _, _)
FindSpanLoop(x, kn, low, high) ==
    LET mid == (low + high) \div 2
    IN  IF Lt(x, KnotAt(kn, mid)) \/ Ge(x, KnotAt(kn, mid + 1))
        THEN IF Lt(x, KnotAt(kn, mid))
             THEN FindSpanLoop(x, kn, low, mid)
             ELSE FindSpanLoop(x, kn, mid, high)
        ELSE mid

\* a findSpan that would return N at the right end
findSpanPastEnd(x, ord, kn) ==
    LET n_deboor == Len0(kn) - ord - 2
    IN  IF Ge(x, KnotAt(kn, n_deboor + 1)) THEN n_deboor + 1
        ELSE IF Le(x, KnotAt(kn, ord)) THEN ord
        ELSE FindSpanLoop(x, kn, ord, n_deboor + 1)

\* Cobs.findSpan(x, order, knots)
findSpan(x, ord, kn) ==
    LET n_deboor == Len0(kn) - ord - 2
    IN  IF Ge(x, KnotAt(kn, n_deboor + 1)) THEN n_deboor
        ELSE IF Le(x, KnotAt(kn, ord)) THEN ord
        ELSE FindSpanLoop(x, kn, ord, n_deboor + 1)

\* the loop over r of evaluateBasis, for one j; returns basis with basis[j] set
RECURSIVE BasisInner(_, _, _, _, _, _)
BasisInner(basis, left, right, j, r, saved) ==
    IF r >= j THEN [basis EXCEPT ![j] = saved]
    ELSE LET Step(temp) ==
                 BasisInner([basis EXCEPT ![r] = Add(saved, Mul(right[r + 1], temp))],
                            left, right, j, r + 1, Mul(left[j - r], temp))
             Quotient(den) == IF Ne(den, Zero) THEN Div(basis[r], den) ELSE Zero
         IN  Step(Quotient(Add(right[r + 1], left[j - r])))

\* the loop over j of evaluateBasis
RECURSIVE BasisOuter(_, _, _, _, _, _, _, _)
BasisOuter(basis, left, right, x, ord, span, kn, j) ==
    IF j > ord THEN basis
    ELSE LET l == [left EXCEPT ![j] = Sub(x, KnotAt(kn, span + 1 - j))]
             r == [right EXCEPT ![j] = Sub(KnotAt(kn, span + j), x)]
         IN  BasisOuter(BasisInner(basis, l, r, j, 0, Zero), l, r, x, ord, span, kn, j + 1)

\* Cobs.evaluateBasis(x, order, span, knots)
evaluateBasis(x, ord, span, kn) ==
    BasisOuter([Fill(ord + 1, Zero) EXCEPT ![0] = One],
               Fill(ord + 1, Zero), Fill(ord + 1, Zero), x, ord, span, kn, 1)

\* BSpline.computeBasisFunctions(span, x) of bspline.ts for this.degree = degree
\* and this.knots = kn: the recurrence of evaluateBasis with the quotient taken
\* whatever the denominator.  A quotient by zero is Infinity or NaN in the source
\* and NaN here: neither is finite, and no sum or product of the recurrence
\* makes a finite value of either
computeBasisFunctions(span, x, degree, kn) ==
    LET RECURSIVE Inner(_, _, _, _, _, _)
        Inner(N, left, right, j, r, saved) ==
            IF r >= j THEN [N EXCEPT ![j] = saved]
            ELSE LET Step(temp) ==
                         Inner([N EXCEPT ![r] = Add(saved, Mul(right[r + 1], temp))],
                               left, right, j, r + 1, Mul(left[j - r], temp))
                 IN  Step(Div(N[r], Add(right[r + 1], left[j - r])))
        RECURSIVE Outer(_, _, _, _)
        Outer(N, left, right, j) ==
            IF j > degree THEN N
            ELSE LET Filled(l, r) == Outer(Inner(N, l, r, j, 0, Zero), l, r, j + 1)
                 IN  Filled([left EXCEPT ![j] = Sub(x, KnotAt(kn, span + 1 - j))],
                            [right EXCEPT ![j] = Sub(KnotAt(kn, span + j), x)])
    IN  Outer([Fill(degree + 1, Zero) EXCEPT ![0] = One],
              Fill(degree + 1, Zero), Fill(degree + 1, Zero), 1)

\* BSpline.evaluate(x): the values of computeBasisFunctions at the span of x,
\* placed from column span - degree on
BSplineEvaluate(x, degree, kn) ==
    LET Placed(span, basis) ==
            Eager([c \in 0..(Len0(kn) - degree - 2) |->
                     IF c - span + degree \in 0..degree THEN basis[c - span + degree]
                     ELSE Zero])
        At(span) == Placed(span, computeBasisFunctions(span, x, degree, kn))
    IN  At(findSpan(x, degree, kn))

\* BSpline.computeDerivativeBasisFunctions(span, x, deriv) for this.degree =
\* degree and this.knots = kn.  ndu is the table of the recurrence, its quotients
\* taken whatever the denominator; a is the two rows of the divided differences,
\* made anew for every r; the values ders[deriv][r] are returned
computeDerivativeBasisFunctions(span, x, deriv, degree, kn) ==
    LET Table == Fill(degree + 1, Fill(degree + 1, Zero))
        RECURSIVE Inner(_, _, _, _, _, _)
        Inner(ndu, left, right, j, r, saved) ==
            IF r >= j THEN [ndu EXCEPT ![j][j] = saved]
            ELSE LET Step(den, temp) ==
                         Inner([ndu EXCEPT ![j][r] = den,
                                           ![r][j] = Add(saved, Mul(right[r + 1], temp))],
                               left, right, j, r + 1, Mul(left[j - r], temp))
                     Quotient(den) == Step(den, Div(ndu[r][j - 1], den))
                 IN  Quotient(Add(right[r + 1], left[j - r]))
        RECURSIVE Outer(_, _, _, _)
        Outer(ndu, left, right, j) ==
            IF j > degree THEN ndu
            ELSE LET Filled(l, r) == Outer(Inner(ndu, l, r, j, 0, Zero), l, r, j + 1)
                 IN  Filled([left EXCEPT ![j] = Sub(x, KnotAt(kn, span + 1 - j))],
                            [right EXCEPT ![j] = Sub(KnotAt(kn, span + j), x)])
        \* the pass for r and k: the row a[s2] it writes and the value d
        Pass(ndu, a, r, k, s1, s2) ==
            LET rk == r - k
                pk == degree - k
                j1 == IF rk >= -1 THEN 1 ELSE -rk
                j2 == IF r - 1 <= pk THEN k - 1 ELSE degree - r
                Written(row) ==
                    [row |-> row,
                     d |-> Add(Add(IF r >= k THEN Mul(row[0], ndu[rk][pk]) ELSE Zero,
                                   Sum(Eager([i \in 0..(j2 - j1) |->
                                          Mul(row[j1 + i], ndu[rk + j1 + i][pk])]))),
                               IF r <= pk THEN Mul(row[k], ndu[r][pk]) ELSE Zero)]
            IN  Written(Eager([j \in 0..degree |->
                    IF j = 0 /\ r >= k THEN Div(a[s1][0], ndu[pk + 1][rk])
                    ELSE IF j >= j1 /\ j <= j2
                         THEN Div(Sub(a[s1][j], a[s1][j - 1]), ndu[pk + 1][rk + j])
                    ELSE IF j = k /\ r <= pk THEN Div(Neg(a[s1][k - 1]), ndu[pk + 1][r])
                    ELSE a[s2][j]]))
        \* ders[k][r] for k up to deriv, before the final factors
        RECURSIVE Passes(_, _, _, _, _, _)
        Passes(ndu, a, r, k, s1, s2) ==
            IF k > deriv THEN Zero
            ELSE LET After(p) ==
                         IF k = deriv THEN p.d
                         ELSE Passes(ndu, [a EXCEPT ![s2] = p.row], r, k + 1, s2, s1)
                 IN  After(Pass(ndu, a, r, k, s1, s2))
        \* the factor degree * (degree - 1) * ... of ders[deriv]
        RECURSIVE Factor(_)
        Factor(k) == IF k = 0 THEN 1 ELSE (degree - k + 1) * Factor(k - 1)
        Ders(ndu) ==
            Eager([r \in 0..degree |->
                     Mul(Passes(ndu, [Fill(2, Fill(degree + 1, Zero)) EXCEPT ![0][0] = One],
                                r, 1, 0, 1),
                         Num(Factor(deriv)))])
    IN  Ders(Outer([Table EXCEPT ![0][0] = One],
                   Fill(degree + 1, Zero), Fill(degree + 1, Zero), 1))

\* createDesignMatrix throws: numBasis < 0, or the Matrix constructor is given
\* no row or rows of no column
createDesignMatrixThrows(x, ord, kn) ==
    Len0(kn) - ord - 1 <= 0 \/ Len0(x) = 0

\* row of the design matrix at xi
DesignRow(xi, ord, kn) ==
    LET numBasis == Len0(kn) - ord - 1
        Placed(span, basis) ==
            Eager([c \in 0..(numBasis - 1) |->
               IF c - (span - ord) \in 0..ord THEN Round12(basis[c - (span - ord)]) ELSE Zero])
        InSpan(span) == Placed(span, evaluateBasis(xi, ord, span, kn))
    IN  InSpan(findSpan(xi, ord, kn))

\* Cobs.createDesignMatrix(x, order, knots), when it does not throw
createDesignMatrix(x, ord, kn) ==
    [rows |-> Len0(x), cols |-> Len0(kn) - ord - 1,
     dense |-> Eager([i \in 0..(Len0(x) - 1) |-> DesignRow(x[i], ord, kn)])]

\* the loop of evaluate and of fitted in createResult: the basis row at xi dotted
\* with the coefficients, over j < coefficients.length with j < numCols
EvaluateAt(coefficients, xi, ord, kn) ==
    LET Combined(row) ==
            Sum(Eager([j \in {k \in DOMAIN coefficients : k \in DOMAIN row} |->
                         Mul(row[j], coefficients[j])]))
    IN  Combined(DesignRow(xi, ord, kn))

\* Cobs.calculateError(design, y, coefficients)
calculateError(design, y, coefficients) ==
    Sum(Eager([i \in DOMAIN y |->
       LET fitted_i == Sum(Eager([j \in {k \in DOMAIN coefficients : k < design.cols} |->
                              Mul(design.dense[i][j], coefficients[j])]))
           r == Sub(y[i], fitted_i)
       IN  Mul(r, r)]))

-----------------------------------------------------------------------------
(* Constraint systems A c <= b (cobs.ts) *)

\* an entry is stored only when Math.abs(value) > this.tol; otherwise it stays 0
Stored(v) == IF AboveTol(v) THEN v ELSE Zero

\* new Matrix({rows, cols, data: [], ...}) with rows = 0
EmptySystem(n_coeffs) == [A |-> zeros(0, n_coeffs), b |-> Fill(0, Zero)]

\* Cobs.generateMonotonicityConstraints(design, increasing)
generateMonotonicityConstraints(design, increasing) ==
    LET n_coeffs == design.cols
        m == design.rows - 1
    IN  IF m <= 0 THEN EmptySystem(n_coeffs)
        ELSE [A |-> [rows |-> m, cols |-> n_coeffs,
                     dense |-> Eager([i \in 0..(m - 1) |-> Eager([j \in 0..(n_coeffs - 1) |->
                        LET diff == Sub(get(design, i + 1, j), get(design, i, j))
                        IN  IF AboveTol(diff)
                            THEN (IF increasing THEN Neg(diff) ELSE diff)
                            ELSE Zero])])],
              b |-> Fill(m, Zero)]

\* Cobs.generateConvexityConstraints(design, convex)
generateConvexityConstraints(design, convex) ==
    LET n_coeffs == design.cols
        m == design.rows - 2
    IN  IF m <= 0 THEN EmptySystem(n_coeffs)
        ELSE [A |-> [rows |-> m, cols |-> n_coeffs,
                     dense |-> Eager([i \in 0..(m - 1) |-> Eager([j \in 0..(n_coeffs - 1) |->
                        LET val_i == get(design, i, j)
                            val_i1 == get(design, i + 1, j)
                            val_i2 == get(design, i + 2, j)
                            second_diff_coeff == Add(Sub(val_i2, Mul(Num(2), val_i1)), val_i)
                        IN  IF AboveTol(second_diff_coeff)
                            THEN (IF convex THEN Neg(second_diff_coeff) ELSE second_diff_coeff)
                            ELSE Zero])])],
              b |-> Fill(m, Zero)]

\* Cobs.generatePeriodicityConstraints(design)
generatePeriodicityConstraints(design) ==
    LET n_coeffs == design.cols
        System(row) ==
            IF \E j \in DOMAIN row : AboveTol(row[j])
            THEN [A |-> [rows |-> 1, cols |-> n_coeffs, dense |-> Fill(1, row)],
                  b |-> Fill(1, Zero)]
            ELSE EmptySystem(n_coeffs)
    IN  IF design.rows < 2 THEN EmptySystem(n_coeffs)
        ELSE System(Eager([j \in 0..(n_coeffs - 1) |->
                 LET first_diff_coeff == Sub(get(design, 1, j), get(design, 0, j))
                     last_diff_coeff == Sub(get(design, design.rows - 1, j),
                                            get(design, design.rows - 2, j))
                 IN  Stored(Sub(first_diff_coeff, last_diff_coeff))]))

\* the operators generatePointwiseConstraints accepts; any other one throws
SupportedOperators == {"=", ">=", "<="}

\* Cobs.generatePointwiseConstraints(design, x_val, y_val, operator), for a
\* supported operator, with this.order = ord and this.knots = kn
generatePointwiseConstraints(design, x_val, y_val, operator, ord, kn) ==
    LET numBasis == design.cols
        System(basisCoeffsAtX) ==
            LET rowHasData == \E j \in 0..(numBasis - 1) : AboveTol(basisCoeffsAtX[j])
                pos == Eager([j \in 0..(numBasis - 1) |-> Stored(basisCoeffsAtX[j])])
                neg == Eager([j \in 0..(numBasis - 1) |->
                          IF AboveTol(basisCoeffsAtX[j]) THEN Neg(basisCoeffsAtX[j]) ELSE Zero])
            IN  IF ~rowHasData THEN EmptySystem(numBasis)
                ELSE IF operator = "="
                     THEN [A |-> [rows |-> 2, cols |-> numBasis, dense |-> Arr(<<pos, neg>>)],
                           b |-> Arr(<<y_val, Neg(y_val)>>)]
                ELSE IF operator = ">="
                     THEN [A |-> [rows |-> 1, cols |-> numBasis, dense |-> Fill(1, neg)],
                           b |-> Fill(1, Neg(y_val))]
                ELSE [A |-> [rows |-> 1, cols |-> numBasis, dense |-> Fill(1, pos)],
                      b |-> Fill(1, y_val)]
        FromRow(basisAtXRow) ==
            System(Eager([j \in 0..(numBasis - 1) |-> get(basisAtXRow, 0, j)]))
    IN  FromRow(createDesignMatrix(Fill(1, x_val), ord, kn))

\* constraint types of the switch in solveConstrainedProblem
SupportedTypes == {"monotone", "convex", "concave", "periodic", "pointwise"}

\* the cases of the switch that leave result = null
Skipped(c) ==
    \/ c.type = "monotone" /\ "increasing" \notin c.has
    \/ c.type = "pointwise" /\ ~("x" \in c.has /\ "y" \in c.has
                                 /\ "operator" \in c.has /\ c.operator # "")

\* the error thrown while handling constraint c, "" when none
ConstraintError(c) ==
    IF c.type \notin SupportedTypes THEN "Unsupported constraint type"
    ELSE IF c.type = "pointwise" /\ ~Skipped(c) /\ c.operator \notin SupportedOperators
         THEN "Unsupported operator"
    ELSE ""

\* the switch of solveConstrainedProblem for a constraint that yields a result
ConstraintSystem(design, c, ord, kn) ==
    IF c.type = "monotone" THEN generateMonotonicityConstraints(design, c.increasing)
    ELSE IF c.type = "convex"
         THEN generateConvexityConstraints(design, IF "convex" \in c.has THEN c.convex ELSE TRUE)
    ELSE IF c.type = "concave" THEN generateConvexityConstraints(design, FALSE)
    ELSE IF c.type = "periodic" THEN generatePeriodicityConstraints(design)
    ELSE generatePointwiseConstraints(design, c.x, c.y, c.operator, ord, kn)

\* the loop over the constraints, then the assembly of A and b row after row
RECURSIVE AssembleFrom(_, _, _, _, _, _, _)
AssembleFrom(design, constraints, i, rowsAcc, bAcc, ord, kn) ==
    IF i > Len(constraints)
    THEN [threw |-> "",
          A |-> [rows |-> Len(rowsAcc), cols |-> design.cols, dense |-> Arr(rowsAcc)],
          b |-> Arr(bAcc)]
    ELSE LET c == constraints[i]
         IN  IF ConstraintError(c) # ""
             THEN [threw |-> ConstraintError(c), A |-> null, b |-> Fill(0, Zero)]
             ELSE IF Skipped(c)
             THEN AssembleFrom(design, constraints, i + 1, rowsAcc, bAcc, ord, kn)
             ELSE LET Pushed(r) ==
                          AssembleFrom(design, constraints, i + 1,
                             rowsAcc \o [k \in 1..r.A.rows |->
                                Eager([j \in 0..(design.cols - 1) |-> Stored(get(r.A, k - 1, j))])],
                             bAcc \o [k \in 1..r.A.rows |-> r.b[k - 1]], ord, kn)
                  IN  Pushed(ConstraintSystem(design, c, ord, kn))

\* Cobs.solveConstrainedProblem(design, y, constraints)
solveConstrainedProblem(design, y, constraints, ord, kn) ==
    AssembleFrom(design, constraints, 1, <<>>, <<>>, ord, kn)

-----------------------------------------------------------------------------
(* Revised simplex method (solver.ts): minimise c.x subject to A x <= b, x >= 0.
   basis is an array on 0..m-1, nonbasis a sequence in array order. *)

maxIter == 1000

\* what nonbasis.pop() yields on an empty array: no column index at all
undefined == -2

\* Array.prototype.indexOf as a position in the sequence, 0 when absent
IndexOf(s, v) ==
    IF \E k \in 1..Len(s) : s[k] = v
    THEN CHOOSE k \in 1..Len(s) : s[k] = v /\ \A l \in 1..(k - 1) : s[l] # v
    ELSE 0

\* nonbasis.splice(nonbasis.indexOf(col), 1): indexOf = -1 removes the last element
SpliceIndexOf(s, col) ==
    LET k == IF IndexOf(s, col) = 0 THEN Len(s) ELSE IndexOf(s, col)
    IN  [l \in 1..(Len(s) - (IF Len(s) > 0 THEN 1 ELSE 0)) |-> IF l < k THEN s[l] ELSE s[l + 1]]

\* LPSolver.findBasisColumn(row)
findBasisColumn(A, row) ==
    LET isUnitVector(j) == \A i \in 0..(A.rows - 1) :
                              IF i = row THEN ~AboveTol(Sub(get(A, i, j), One))
                                         ELSE ~AboveTol(get(A, i, j))
        units == {j \in 0..(A.cols - 1) : isUnitVector(j)}
    IN  IF units = {} THEN -1 ELSE CHOOSE j \in units : \A k \in units : j <= k

\* the initialisation loop of solve(), from row i on
RECURSIVE InitBasis(_, _, _, _)
InitBasis(A, i, basis, nonbasis) ==
    IF i >= A.rows THEN [basis |-> basis, nonbasis |-> nonbasis]
    ELSE LET col == findBasisColumn(A, i)
         IN  IF col # -1
             THEN InitBasis(A, i + 1, [basis EXCEPT ![i] = col], SpliceIndexOf(nonbasis, col))
             ELSE IF Len(nonbasis) = 0
                  THEN InitBasis(A, i + 1, [basis EXCEPT ![i] = undefined], nonbasis)
                  ELSE InitBasis(A, i + 1, [basis EXCEPT ![i] = nonbasis[Len(nonbasis)]],
                                 SubSeq(nonbasis, 1, Len(nonbasis) - 1))

\* LPSolver.getBasisInverse(basis)
getBasisInverse(A, basis) ==
    LET m == A.rows
        n == A.cols
        valid(i) == basis[i] >= 0 /\ basis[i] < n
        nonZeroCount == Cardinality({ij \in (0..(m - 1)) \X (0..(m - 1)) :
                            valid(ij[1]) /\ AboveTol(get(A, ij[2], basis[ij[1]]))})
        B == [rows |-> m, cols |-> m,
              dense |-> Eager([j \in 0..(m - 1) |-> Eager([i \in 0..(m - 1) |->
                          IF valid(i) THEN Stored(get(A, j, basis[i])) ELSE Zero])])]
    IN  IF nonZeroCount < m THEN null ELSE inverse(B)

\* the scan of nonbasis for the entering column, from position k on
RECURSIVE Entering(_, _, _, _, _, _, _)
Entering(A, c, y, nonbasis, k, enteringCol, minReducedCost) ==
    IF k > Len(nonbasis) THEN enteringCol
    ELSE LET j == nonbasis[k]
             Scan(reducedCost) ==
                 IF Lt(reducedCost, minReducedCost)
                 THEN Entering(A, c, y, nonbasis, k + 1, j, reducedCost)
                 ELSE Entering(A, c, y, nonbasis, k + 1, enteringCol, minReducedCost)
         IN  Scan(Sub(c[j], dotProduct(y, getColumn(A, j))))

\* the ratio test, from row i on; leavingRow = -1 while minRatio is Infinity
RECURSIVE Leaving(_, _, _, _, _, _)
Leaving(xB, d, m, i, leavingRow, minRatio) ==
    IF i >= m THEN leavingRow
    ELSE IF Gt(d[i], Zero) /\ (leavingRow = -1 \/ Lt(Div(xB[i], d[i]), minRatio))
         THEN Leaving(xB, d, m, i + 1, i, Div(xB[i], d[i]))
         ELSE Leaving(xB, d, m, i + 1, leavingRow, minRatio)

\* the basic solution alone, one component for each row
OptimalXBasicOnly(basis, xB, m, n) == Eager([i \in 0..(m - 1) |-> Max0(xB[i])])

\* the vector returned at optimality
OptimalX(basis, xB, m, n) ==
    Eager([j \in 0..(n - 1) |->
       IF \E i \in 0..(m - 1) : basis[i] = j
       THEN Max0(xB[CHOOSE i \in 0..(m - 1) :
                      basis[i] = j /\ \A k \in 0..(m - 1) : basis[k] = j => k <= i])
       ELSE Zero])

\* the main loop of solve(), from iteration iter on
\* one pass of the main loop of LPSolver.solve(): status "pivot" when the pass
\* ends with the basis update and the loop goes on, a final status otherwise
SimplexStep(A, b, c, basis, nonbasis, iter) ==
    LET m == A.rows
        n == A.cols
        failed(why) == [x |-> Fill(n, Zero), status |-> why, iter |-> iter,
                        basis |-> basis, nonbasis |-> nonbasis]
        cB == Eager([i \in 0..(m - 1) |-> c[basis[i]]])
        \* update the basis
        Pivot(enteringCol, leavingRow) ==
            IF leavingRow = -1 THEN failed("unbounded")
            ELSE [x |-> Fill(n, Zero), status |-> "pivot", iter |-> iter + 1,
                  basis |-> [basis EXCEPT ![leavingRow] = enteringCol],
                  nonbasis |-> [nonbasis EXCEPT ![IndexOf(nonbasis, enteringCol)] =
                                                    basis[leavingRow]]]
        \* the optimality check, then the step direction and the ratio test
        Enter(Binv, xB, enteringCol) ==
            IF enteringCol = -1
            THEN [x |-> OptimalX(basis, xB, m, n), status |-> "optimal", iter |-> iter,
                  basis |-> basis, nonbasis |-> nonbasis]
            ELSE Pivot(enteringCol,
                       Leaving(xB, multiplyMatrixVector(Binv, getColumn(A, enteringCol)),
                               m, 0, -1, Zero))
        \* the feasibility check, then the reduced costs
        Feasible(Binv, xB) ==
            IF \E i \in 0..(m - 1) : ~Ge(xB[i], Zero) THEN failed("infeasible")
            ELSE Enter(Binv, xB,
                       Entering(A, c, multiplyVectorMatrix(cB, Binv), nonbasis, 1, -1, Zero))
        Inverted(Binv) ==
            IF Binv.rows = -1 THEN failed("singular")
            ELSE Feasible(Binv, multiplyMatrixVector(Binv, b))
    IN  IF iter >= maxIter THEN failed("maxiter")
        ELSE Inverted(getBasisInverse(A, basis))

\* the main loop of LPSolver.solve(), from the pass numbered iter to the return
RECURSIVE SimplexLoop(_, _, _, _, _, _)
SimplexLoop(A, b, c, basis, nonbasis, iter) ==
    LET Continue(s) ==
            IF s.status = "pivot"
            THEN SimplexLoop(A, b, c, s.basis, s.nonbasis, s.iter)
            ELSE s
    IN  Continue(SimplexStep(A, b, c, basis, nonbasis, iter))

\* LPSolver.solve() for new LPSolver(A, b, c)
LPsolve(A, b, c) ==
    LET Loop(init) == SimplexLoop(A, b, c, init.basis, init.nonbasis, 0)
    IN  Loop(InitBasis(A, 0, Fill(A.rows, -1), [k \in 1..A.cols |-> k - 1]))

-----------------------------------------------------------------------------
(* Cobs.fit and the result it returns (cobs.ts).
   An options object is [has, order, knots, constraints, tau]: has is the set of
   the properties that are present, a property outside has is undefined.  A
   constraint is [type, has, increasing, convex, x, y, operator] likewise. *)

\* nothing thrown
NoError == ""

\* the validation of options.knots in fit, for this.order = ord
KnotsError(kn, ord) ==
    IF Len0(kn) < 2 * ord THEN "Provided knots array is too short"
    ELSE IF \E i \in 0..(Len0(kn) - 2) : Gt(kn[i], kn[i + 1])
         THEN "Provided knots array must be sorted non-decreasingly"
    ELSE NoError

\* a constrained part of fit that would take a failed solver's vector for null
SolverSolutionNullOnFailure(design, y, constraints, ord, kn) ==
    LET none(why) == [threw |-> NoError, isNull |-> TRUE, x |-> Fill(0, Zero), lp |-> why]
        Solved(lp) == [threw |-> NoError, isNull |-> lp.status # "optimal", x |-> lp.x,
                       lp |-> lp.status]
        Constrained(sys) ==
            IF sys.threw # NoError
            THEN [threw |-> sys.threw, isNull |-> TRUE, x |-> Fill(0, Zero), lp |-> "not run"]
            ELSE IF sys.A.rows > 0
                 THEN Solved(LPsolve(sys.A, sys.b, Fill(design.cols, One)))
            ELSE none("no rows")
    IN  IF Len(constraints) = 0 THEN none("no constraints")
        ELSE Constrained(solveConstrainedProblem(design, y, constraints, ord, kn))

\* the constrained part of fit: solverSolution, null when isNull
SolverSolution(design, y, constraints, ord, kn) ==
    LET none(why) == [threw |-> NoError, isNull |-> TRUE, x |-> Fill(0, Zero), lp |-> why]
        Solved(lp) == [threw |-> NoError, isNull |-> FALSE, x |-> lp.x, lp |-> lp.status]
        Constrained(sys) ==
            IF sys.threw # NoError
            THEN [threw |-> sys.threw, isNull |-> TRUE, x |-> Fill(0, Zero), lp |-> "not run"]
            ELSE IF sys.A.rows > 0
                 THEN Solved(LPsolve(sys.A, sys.b, Fill(design.cols, One)))
            ELSE none("no rows")
    IN  IF Len(constraints) = 0 THEN none("no constraints")
        ELSE Constrained(solveConstrainedProblem(design, y, constraints, ord, kn))

\* a createResult that would not report tau
createResultWithoutTau(coefficients, x, y, hasTau, tau, ord, kn, lp) ==
    [coefficients |-> coefficients, error |-> Zero,
     fit |-> [coefficients |-> coefficients, fitted |-> Fill(Len0(x), Zero),
              residuals |-> y],
     knots |-> kn, order |-> ord, hasTau |-> FALSE, tau |-> Zero, lp |-> lp]

\* Cobs.createResult(coefficients, x, y, tau) with this.order = ord, this.knots = kn;
\* lp records how the solver ended for the fit that made the result
createResult(coefficients, x, y, hasTau, tau, ord, kn, lp) ==
    LET design == createDesignMatrix(x, ord, kn)
        Result(fitted) ==
            [coefficients |-> coefficients,
             error |-> calculateError(design, y, coefficients),
             fit |-> [coefficients |-> coefficients,
                      fitted |-> fitted,
                      residuals |-> Eager([i \in DOMAIN y |-> Sub(y[i], fitted[i])])],
             knots |-> kn, order |-> ord, hasTau |-> hasTau, tau |-> tau, lp |-> lp]
    IN  Result(Eager([i \in DOMAIN x |-> EvaluateAt(coefficients, x[i], ord, kn)]))

\* a result that stands for none, in the record of a call that threw
NoResult ==
    [coefficients |-> Fill(0, Zero), error |-> Zero,
     fit |-> [coefficients |-> Fill(0, Zero), fitted |-> Fill(0, Zero),
              residuals |-> Fill(0, Zero)],
     knots |-> Fill(0, Zero), order |-> 0,
     hasTau |-> FALSE, tau |-> Zero, lp |-> "not run"]

\* the checks of a fit that would accept any options.order
InputErrorOrderUnchecked(x, y, options) ==
    IF Len0(x) # Len0(y) THEN "Input arrays x and y must have the same length"
    ELSE IF Len0(x) < 2 THEN "At least two data points are required"
    ELSE NoError

\* the checks of fit on its arguments, before it assigns any field
InputError(x, y, options) ==
    IF Len0(x) # Len0(y) THEN "Input arrays x and y must have the same length"
    ELSE IF Len0(x) < 2 THEN "At least two data points are required"
    ELSE IF "order" \in options.has /\ options.order < 1
         THEN "Order must be an integer greater than or equal to 1."
    ELSE NoError

\* a fit that would leave this.order as it is when options.order is absent
OrderForCarried(options) == IF "order" \in options.has THEN options.order ELSE order

\* the value fit assigns to this.order
OrderFor(options) == IF "order" \in options.has THEN options.order ELSE 4

\* the knots of a fit that would generate them whatever the options say
KnotsForGenerated(x, options) == generateKnots(x, OrderFor(options))

\* the value fit assigns to this.knots, once options.knots has passed KnotsError
KnotsFor(x, options) ==
    IF "knots" \in options.has THEN options.knots ELSE generateKnots(x, OrderFor(options))

\* Cobs.fit(x, y, options): what it throws, which fields it has assigned by
\* then, and the result it returns
fit(x, y, options) ==
    LET constraints == IF "constraints" \in options.has THEN options.constraints ELSE <<>>
        ord == OrderFor(options)
        thrown(msg, setOrder, setKnots, kn) ==
            [threw |-> msg, setOrder |-> setOrder, setKnots |-> setKnots,
             order |-> IF setOrder THEN ord ELSE 0,
             knots |-> IF setKnots THEN kn ELSE Fill(0, Zero),
             result |-> NoResult]
        Rounded(values) == Eager([j \in DOMAIN values |-> Round12(values[j])])
        \* final_coeffs, then createResult
        Finished(kn, design, sol) ==
            IF sol.threw # NoError
            THEN thrown(sol.threw, TRUE, TRUE, kn)
            ELSE [threw |-> NoError, setOrder |-> TRUE, setKnots |-> TRUE,
                  order |-> ord, knots |-> kn,
                  result |-> createResult(
                                Rounded(IF ~sol.isNull /\ Len0(sol.x) = design.cols
                                        THEN sol.x ELSE solve(design, y)),
                                x, y, "tau" \in options.has, options.tau, ord, kn, sol.lp)]
        Designed(kn, design) ==
            Finished(kn, design, SolverSolution(design, y, constraints, ord, kn))
        \* this.knots assigned: the design matrix, which may throw
        WithKnots(kn) ==
            IF createDesignMatrixThrows(x, ord, kn)
            THEN thrown("Invalid matrix data: empty or malformed array", TRUE, TRUE, kn)
            ELSE Designed(kn, createDesignMatrix(x, ord, kn))
        Checked(inputError, knotsError) ==
            IF inputError # NoError
            THEN thrown(inputError, FALSE, FALSE, Fill(0, Zero))
            ELSE IF "knots" \in options.has /\ knotsError # NoError
            THEN thrown(knotsError, TRUE, FALSE, Fill(0, Zero))
            ELSE WithKnots(KnotsFor(x, options))
    IN  Checked(InputError(x, y, options), KnotsError(options.knots, ord))

-----------------------------------------------------------------------------
(* The calls explored.  Data and options are drawn from small sets; the options
   of a call vary the order alone, or the knots, or the constraints.  Piecewise
   linear fits are also made to MaxN + 1 points in increasing order, spread over
   0..MaxSpread. *)

MaxN == 3
MaxX == 2
MaxY == 1
MaxOrder == 2
MaxKnots == 4
MaxKnot == 1
MaxConstraints == 2
MaxCalls == 1
MaxSpread == 6
MaxSeqCalls == 2

Arrays(vals, n) == {Eager(f) : f \in [0..(n - 1) -> vals]}
ArraysUpTo(vals, n) == UNION {Arrays(vals, k) : k \in 0..n}

XVals == {Num(i) : i \in 0..MaxX}
YVals == {Num(i) : i \in 0..MaxY}

\* an options object without the properties outside has
Options(has, ord, kn, cs) ==
    [has |-> has, order |-> ord, knots |-> kn, constraints |-> cs, tau |-> Zero]

\* a constraint object of each type
Constraint(type, has, increasing, convex, x, y, operator) ==
    [type |-> type, has |-> has, increasing |-> increasing, convex |-> convex,
     x |-> x, y |-> y, operator |-> operator]
Monotone(increasing) == Constraint("monotone", {"increasing"}, increasing, FALSE, Zero, Zero, "")
Typed(type) == Constraint(type, {}, FALSE, FALSE, Zero, Zero, "")
Convex(convex) == Constraint("convex", {"convex"}, FALSE, convex, Zero, Zero, "")
Pointwise(x, y, operator) ==
    Constraint("pointwise", {"x", "y", "operator"}, FALSE, FALSE, x, y, operator)

PointX == {Num(0), Num(1)}
PointY == {Num(-1), Num(1)}

Constraints ==
    {Monotone(TRUE), Monotone(FALSE)}
    \cup {Typed(t) : t \in {"monotone", "convex", "concave", "periodic", "smooth"}}
    \cup {Convex(FALSE)}
    \cup {Pointwise(x, y, op) : x \in PointX, y \in PointY, op \in SupportedOperators}
    \cup {Pointwise(One, One, op) : op \in {"!=", ""}}
    \cup {Constraint("pointwise", {"y", "operator"}, FALSE, FALSE, Zero, One, "=")}

ConstraintLists == UNION {[1..k -> Constraints] : k \in 1..MaxConstraints}

\* the order property: absent, or 0..MaxOrder
OrderOptions == {Options({}, 0, Fill(0, Zero), <<>>)}
                \cup {Options({"order"}, o, Fill(0, Zero), <<>>) : o \in 0..MaxOrder}

\* the data of the calls that vary knots or constraints: two points
TwoPoints == Arrays(XVals, 2) \X Arrays(YVals, 2)

Inputs ==
    {[x |-> x, y |-> y, options |-> o] :
        x \in ArraysUpTo(XVals, MaxN), y \in ArraysUpTo(YVals, MaxN), o \in OrderOptions}
    \cup {[x |-> d[1], y |-> d[2],
           options |-> Options({"knots"} \cup o.has, o.order, kn, <<>>)] :
        d \in {e \in TwoPoints : e[2] = Arr(<<Zero, One>>)}, o \in OrderOptions,
        kn \in ArraysUpTo({Num(i) : i \in 0..MaxKnot}, MaxKnots)}
    \cup {[x |-> d[1], y |-> d[2],
           options |-> Options({"order", "constraints"}, o, Fill(0, Zero), cs)] :
        d \in {e \in TwoPoints : e[1] = Arr(<<Zero, One>>)},
        o \in 1..MaxOrder, cs \in ConstraintLists}
    \cup {[x |-> x, y |-> y, options |-> Options({"order"}, 1, Fill(0, Zero), <<>>)] :
        x \in {a \in Arrays({Num(i) : i \in 0..MaxSpread}, MaxN + 1) :
                  \A i \in 0..(MaxN - 1) : Lt(a[i], a[i + 1])},
        y \in Arrays(YVals, MaxN + 1)}

\* the calls explored in sequence on one instance: two points, the order varying
SeqInputs ==
    {[x |-> x, y |-> Arr(<<One, Num(2)>>), options |-> o] :
        x \in Arrays(XVals, 2), o \in OrderOptions}

-----------------------------------------------------------------------------
(* The Cobs object and the calls made on it *)

TypeOK ==
    /\ order \in Nat
    /\ Len(calls) <= MaxSeqCalls

Init ==
    /\ order = 4
    /\ knots = Fill(0, Zero)
    /\ calls = <<>>

\* cobs.fit(x, y, options): the fields assigned before a throw stay assigned
Fit(x, y, options) ==
    LET Assigned(r) ==
            /\ order' = IF r.setOrder THEN r.order ELSE order
            /\ knots' = IF r.setKnots THEN r.knots ELSE knots
            /\ calls' = Append(calls, [x |-> x, y |-> y, options |-> options,
                                       threw |-> r.threw, result |-> r.result])
    IN  Assigned(fit(x, y, options))

Next ==
    \E in \in Inputs : Len(calls) < MaxCalls /\ Fit(in.x, in.y, in.options)

Spec == Init /\ [][Next]_vars

\* several calls in a row on one instance
NextSeq ==
    \E in \in SeqInputs : Len(calls) < MaxSeqCalls /\ Fit(in.x, in.y, in.options)

SpecSeq == Init /\ [][NextSeq]_vars

-----------------------------------------------------------------------------
(* What a caller observes of a call and of the result it returned *)

Returned(c) == c.threw = NoError

\* options.constraints || []
ConstraintsOf(c) ==
    IF "constraints" \in c.options.has THEN c.options.constraints ELSE <<>>

\* the design matrix fit built for the call c that returned
DesignOf(c) == createDesignMatrix(c.x, c.result.order, c.result.knots)

\* the step of the central difference.  The source takes 1e-6, whose square is
\* beyond the integers of the model, and the model takes 1/HInv: within one knot
\* span the difference quotient of a spline of order <= 2 is its second
\* derivative whatever the step
HInv == 4
h == Frac(1, HInv)

\* what the closures of a result do when this.order = ord and this.knots = kn:
\* whether evaluate throws and, when it does not, evaluate(xi) (which is also
\* pp.evaluate(xi)) and pp.evaluateSecondDerivative(xi)
Closures(r, xi, ord, kn) ==
    LET ev(z) == EvaluateAt(r.coefficients, z, ord, kn)
        fxph == ev(Add(xi, h))
        fx == ev(xi)
        fxmh == ev(Sub(xi, h))
    IN  IF createDesignMatrixThrows(Fill(1, xi), ord, kn)
        THEN [throws |-> TRUE, value |-> Zero, second |-> Zero]
        ELSE [throws |-> FALSE, value |-> ev(xi),
              second |-> Div(Add(Sub(fxph, Mul(Num(2), fx)), fxmh), Mul(h, h))]

\* the closures read the instance's fields when they are called
Observed(r, xi) == Closures(r, xi, order, knots)

\* result.evaluate(xi) = result.pp.evaluate(xi)
evaluate(r, xi) == Observed(r, xi).value

\* result.pp.evaluateSecondDerivative(xi)
evaluateSecondDerivative(r, xi) == Observed(r, xi).second

\* what the closures did when fit returned r: the instance's order and knots
\* were then the ones r reports
ObservedAtReturn(r, xi) == Closures(r, xi, r.order, r.knots)

\* Math.min(...x) and Math.max(...x)
RECURSIVE MinTo(_, _)
MinTo(x, n) == IF n = 0 THEN x[0] ELSE IF Lt(x[n], MinTo(x, n - 1)) THEN x[n] ELSE MinTo(x, n - 1)
RECURSIVE MaxTo(_, _)
MaxTo(x, n) == IF n = 0 THEN x[0] ELSE IF Gt(x[n], MaxTo(x, n - 1)) THEN x[n] ELSE MaxTo(x, n - 1)
MinOf(x) == MinTo(x, Len0(x) - 1)
MaxOf(x) == MaxTo(x, Len0(x) - 1)

\* a <= b + 1/K for a tolerance 1/K the integers of the model can hold
LeWithin(a, b, K) ==
    LET s == Sub(a, b) IN ~IsNaN(s) /\ s[1] <= s[2] \div K

\* a < b + 1/K
LtWithin(a, b, K) ==
    LET s == Sub(a, b) IN ~IsNaN(s) /\ s[1] <= (s[2] - 1) \div K

\* |a - b| < 1e-10: two rationals of the model that differ, differ by more
BelowTol(a, b) == ~IsNaN(Sub(a, b)) /\ Sub(a, b)[1] = 0

\* GridN + 1 evenly spaced points of [min(x), max(x)]
GridN == 4
Grid(x) == {Add(MinOf(x), Mul(Frac(i, GridN), Sub(MaxOf(x), MinOf(x)))) : i \in 0..GridN}

\* the ways LPSolver.solve ends with its zero vector
SolverFailures == {"singular", "infeasible", "unbounded", "maxiter"}

\* x has no duplicate values
NoDuplicates(x) == \A i, j \in DOMAIN x : i # j => x[i] # x[j]

\* v < 1/K for v >= 0
BelowFraction(v, K) == ~IsNaN(v) /\ v[1] <= (v[2] - 1) \div K

\* some constraint of call c satisfies P
Has(c, P(_)) == \E i \in DOMAIN ConstraintsOf(c) : P(ConstraintsOf(c)[i])

IsIncreasing(q) == q.type = "monotone" /\ "increasing" \in q.has /\ q.increasing
IsDecreasing(q) == q.type = "monotone" /\ "increasing" \in q.has /\ ~q.increasing
IsPeriodic(q) == q.type = "periodic"
IsConvex(q) == q.type = "convex" /\ ("convex" \in q.has => q.convex)
IsConcave(q) == q.type = "concave" \/ (q.type = "convex" /\ "convex" \in q.has /\ ~q.convex)
IsPointwise(q, operator) ==
    q.type = "pointwise" /\ q.has = {"x", "y", "operator"} /\ q.operator = operator

-----------------------------------------------------------------------------
(* Calls that vary options.tau: the same abscissae, every y, with and without
   a monotone-increasing constraint, two calls in a row on one instance *)

\* the quantile levels of the calls: 0.1, 0.5 and 0.9
TauValues == {Frac(1, 10), Frac(1, 2), Frac(9, 10)}

\* options with order 1, the properties in has, and tau = t
TauOptions(has, t) ==
    [Options({"order"} \cup has, 1, Fill(0, Zero), <<Monotone(TRUE)>>) EXCEPT !.tau = t]

TauInputs ==
    {[x |-> Eager([i \in 0..(MaxN - 1) |-> Num(i)]), y |-> y, options |-> o] :
        y \in Arrays(YVals, MaxN),
        o \in {TauOptions(has, Zero) : has \in SUBSET {"constraints"}}
              \cup {TauOptions(has \cup {"tau"}, t) :
                       has \in SUBSET {"constraints"}, t \in TauValues}}

NextTau ==
    \E in \in TauInputs : Len(calls) < MaxSeqCalls /\ Fit(in.x, in.y, in.options)

SpecTau == Init /\ [][NextTau]_vars

\* the options of a call but for tau
WithoutTau(o) == [o EXCEPT !.tau = Zero, !.has = @ \ {"tau"}]

\* two calls that differ at most in options.tau
SameButTau(c, d) ==
    c.x = d.x /\ c.y = d.y /\ WithoutTau(c.options) = WithoutTau(d.options)

\* the call c has a monotone-increasing constraint and tau = t
IncreasingAtTau(c, t) ==
    Has(c, IsIncreasing) /\ "tau" \in c.options.has /\ c.options.tau = t

-----------------------------------------------------------------------------
(* The basis recurrence on its own: an instance whose order and knots are a
   clamped non-decreasing knot vector, and createDesignMatrix([xi], order, knots)
   called on it, as the closures of a result call it *)

MaxInterior == 2

\* the non-decreasing arrays of length len over vals
NonDecreasing(vals, len) ==
    {a \in Arrays(vals, len) : \A i \in 0..(len - 2) : Le(a[i], a[i + 1])}

\* the clamped non-decreasing knot vectors for order ord: the first ord+1 knots
\* are equal, the last ord+1 knots are equal, at most MaxInterior knots between
ClampedKnots(ord) ==
    {T \in UNION {NonDecreasing(XVals, 2 * (ord + 1) + l) : l \in 0..MaxInterior} :
        /\ \A i \in 0..ord : T[i] = T[0]
        /\ \A i \in 0..ord : T[Len0(T) - 1 - i] = T[Len0(T) - 1]}

\* the abscissae the basis is evaluated at: the halves from 0 to MaxX
BasisPoints == {Frac(i, 2) : i \in 0..(2 * MaxX)}

InitKnots ==
    /\ order \in 1..MaxOrder
    /\ knots \in ClampedKnots(order)
    /\ calls = <<>>

\* createDesignMatrix([xi], this.order, this.knots): the span found, the
\* order+1 values of evaluateBasis and the row of the matrix
EvaluateBasisAt(xi) ==
    LET Row(span) ==
            calls' = Append(calls, [of |-> "Cobs", x |-> xi, span |-> span,
                                    basis |-> evaluateBasis(xi, order, span, knots),
                                    row |-> DesignRow(xi, order, knots)])
    IN  /\ Row(findSpan(xi, order, knots))
        /\ UNCHANGED <<order, knots>>

\* new BSpline(this.knots, this.order).evaluate(xi): the span found, the values
\* of computeBasisFunctions and the row returned
BSplineEvaluateAt(xi) ==
    LET Row(span) ==
            calls' = Append(calls, [of |-> "BSpline", x |-> xi, span |-> span,
                                    basis |-> computeBasisFunctions(span, xi, order, knots),
                                    row |-> BSplineEvaluate(xi, order, knots)])
    IN  /\ Row(findSpan(xi, order, knots))
        /\ UNCHANGED <<order, knots>>

NextBasis ==
    \/ \E xi \in BasisPoints : Len(calls) < MaxCalls /\ EvaluateBasisAt(xi)
    \/ \E xi \in BasisPoints : Len(calls) < MaxCalls /\ BSplineEvaluateAt(xi)

SpecBasis == InitKnots /\ [][NextBasis]_vars

\* N, the number of coefficients of the instance's knot vector
NumCoefficients == Len0(knots) - order - 1

\* xi lies in the active interval [T[order], T[N]]
InActiveInterval(xi) == Le(knots[order], xi) /\ Le(xi, knots[NumCoefficients])

-----------------------------------------------------------------------------
(* The solver on its own: new LPSolver(A, b, c).solve() for every small A, b
   and c, with rows <= columns and rows > columns.  solve() is followed pass by
   pass: the record in calls holds basis and nonbasis as they stand at the start
   of a pass of the main loop, and the returned vector once solve() has
   returned. *)

MaxRows == 2
MaxCols == 2
MaxEntry == 1

LPVals == {Num(i) : i \in (-MaxEntry)..MaxEntry}

LPMatrices(p, n) ==
    {[rows |-> p, cols |-> n, dense |-> d] : d \in Arrays(Arrays(LPVals, n), p)}

\* a problem of three rows and seven columns on which the pivoting rules of
\* solve() return to the basis they started from after six pivots
CyclingLP ==
    [A |-> [rows |-> 3, cols |-> 7,
            dense |-> Arr(<<
               Arr(<<One, Zero, Zero, Frac(1, 4), Num(-8), Num(-1), Num(9)>>),
               Arr(<<Zero, One, Zero, Frac(1, 2), Num(-12), Frac(-1, 2), Num(3)>>),
               Arr(<<Zero, Zero, One, Zero, Zero, One, Zero>>)>>)],
     b |-> Arr(<<Zero, Zero, One>>),
     c |-> Arr(<<Zero, Zero, Zero, Frac(-3, 4), Num(20), Frac(-1, 2), Num(6)>>)]

LPInputs ==
    {CyclingLP} \cup
    UNION {[A : LPMatrices(p, n), b : Arrays(LPVals, p), c : Arrays(LPVals, n)] :
             <<p, n>> \in (1..MaxRows) \X (1..MaxCols)}

\* the constructor and solve() up to the start of the first pass of the main loop
LPStart(A, b, c) ==
    LET Started(init) ==
            calls' = <<[A |-> A, b |-> b, c |-> c, basis |-> init.basis,
                        nonbasis |-> init.nonbasis, iter |-> 0, status |-> "loop",
                        x |-> Fill(0, Zero)]>>
    IN  /\ calls = <<>>
        /\ Started(InitBasis(A, 0, Fill(A.rows, -1), [k \in 1..A.cols |-> k - 1]))
        /\ UNCHANGED <<order, knots>>

\* one pass of the main loop: a return, or the basis update and the next pass
LPPass ==
    LET Passed(lp, s) ==
            calls' = <<[lp EXCEPT !.basis = s.basis, !.nonbasis = s.nonbasis,
                                  !.iter = s.iter,
                                  !.status = IF s.status = "pivot" THEN "loop"
                                             ELSE s.status,
                                  !.x = IF s.status = "pivot" THEN lp.x ELSE s.x]>>
        Pass(lp) == Passed(lp, SimplexStep(lp.A, lp.b, lp.c, lp.basis, lp.nonbasis,
                                           lp.iter))
    IN  /\ calls # <<>>
        /\ calls[1].status = "loop"
        /\ Pass(calls[1])
        /\ UNCHANGED <<order, knots>>

NextLP ==
    \/ \E in \in LPInputs : LPStart(in.A, in.b, in.c)
    \/ LPPass

SpecLP == Init /\ [][NextLP]_vars

\* solve() is at the start of a pass of its main loop
AtLoopStart == calls # <<>> /\ calls[1].status = "loop"

\* solve() has returned
LPReturned == calls # <<>> /\ calls[1].status # "loop"

\* the statuses of the returns that the source comments as the zero solution
ZeroReturns == {"singular", "infeasible", "unbounded", "maxiter"}

\* z >= 0 and A z <= b
LPFeasible(A, b, z) ==
    /\ \A j \in DOMAIN z : Ge(z[j], Zero)
    /\ \A i \in 0..(A.rows - 1) : Le(dotProduct(A.dense[i], z), b[i])

\* the points with small whole coordinates that a returned vector is compared with
LPCandidates(n) == Arrays({Num(i) : i \in 0..MaxEntry}, n)

-----------------------------------------------------------------------------
(* Calls that vary the data values y: two points, one constraint of any kind,
   and a second call on the same instance with the same x and options *)

YInputs ==
    {[x |-> Arr(<<Zero, One>>), y |-> y,
      options |-> Options({"order", "constraints"}, o, Fill(0, Zero), <<q>>)] :
        y \in Arrays(YVals, 2), o \in 1..MaxOrder, q \in Constraints}

NextY ==
    \E in \in YInputs :
        /\ Len(calls) < MaxSeqCalls
        /\ calls # <<>> => in.options = calls[1].options
        /\ Fit(in.x, in.y, in.options)

SpecY == Init /\ [][NextY]_vars

\* the indices at which the while loop of findSpan reads the knot array
RECURSIVE FindSpanLoopReads(_, _, _, _)
FindSpanLoopReads(x, kn, low, high) ==
    LET mid == (low + high) \div 2
    IN  {mid, mid + 1} \cup
        IF Lt(x, KnotAt(kn, mid)) \/ Ge(x, KnotAt(kn, mid + 1))
        THEN IF Lt(x, KnotAt(kn, mid))
             THEN FindSpanLoopReads(x, kn, low, mid)
             ELSE FindSpanLoopReads(x, kn, mid, high)
        ELSE {}

\* the indices at which findSpan(x, ord, kn) and then evaluateBasis, at the span
\* found, read the knot array
KnotReads(x, ord, kn) ==
    LET n_deboor == Len0(kn) - ord - 2
        Basis(span) == UNION {{span + 1 - j, span + j} : j \in 1..ord}
    IN  {n_deboor + 1}
        \cup (IF Ge(x, KnotAt(kn, n_deboor + 1)) THEN {}
              ELSE IF Le(x, KnotAt(kn, ord)) THEN {ord}
              ELSE {ord} \cup FindSpanLoopReads(x, kn, ord, n_deboor + 1))
        \cup Basis(findSpan(x, ord, kn))

\* the call c passed the checks of fit on its arguments and on options.knots
KnotsAccepted(c) ==
    /\ "knots" \in c.options.has
    /\ InputError(c.x, c.y, c.options) = NoError
    /\ KnotsError(c.options.knots, OrderFor(c.options)) = NoError

-----------------------------------------------------------------------------
(* The tables of BSpline.computeDerivativeBasisFunctions (bspline.ts).  The
   indices at which the function reads and writes ndu and a depend on the
   degree and on deriv alone; an access is <<table, i, j>> for table[i][j].
   The function is followed pass by pass of its loop over r and k. *)

MaxDegree == 8

\* the accesses of the recurrence that fills ndu and of the copy into ders[0]
RecurrenceAccesses(degree) ==
    {<<"ndu", 0, 0>>}
    \cup UNION {{<<"ndu", j, r>>, <<"ndu", r, j - 1>>, <<"ndu", r, j>>} :
                  <<j, r>> \in {jr \in (1..degree) \X (0..degree) : jr[2] < jr[1]}}
    \cup {<<"ndu", j, j>> : j \in 1..degree}
    \cup {<<"ndu", j, degree>> : j \in 0..degree}

\* the accesses of a pass whose inner loop would always run up to k - 1
DerivativeAccessesUpToK(degree, r, k, s1, s2) ==
    LET rk == r - k
        pk == degree - k
        j1 == IF rk >= -1 THEN 1 ELSE -rk
    IN  UNION {{<<"a", s2, j>>, <<"a", s1, j>>, <<"a", s1, j - 1>>,
                <<"ndu", pk + 1, rk + j>>, <<"ndu", rk + j, pk>>} : j \in j1..(k - 1)}

\* the accesses of the pass for r and k, with a[s1] the row read and a[s2] the
\* row written
DerivativeAccesses(degree, r, k, s1, s2) ==
    LET rk == r - k
        pk == degree - k
        j1 == IF rk >= -1 THEN 1 ELSE -rk
        j2 == IF r - 1 <= pk THEN k - 1 ELSE degree - r
    IN  (IF r >= k
         THEN {<<"a", s2, 0>>, <<"a", s1, 0>>, <<"ndu", pk + 1, rk>>, <<"ndu", rk, pk>>}
         ELSE {})
        \cup UNION {{<<"a", s2, j>>, <<"a", s1, j>>, <<"a", s1, j - 1>>,
                     <<"ndu", pk + 1, rk + j>>, <<"ndu", rk + j, pk>>} : j \in j1..j2}
        \cup (IF r <= pk
              THEN {<<"a", s2, k>>, <<"a", s1, k - 1>>, <<"ndu", pk + 1, r>>,
                    <<"ndu", r, pk>>}
              ELSE {})

\* computeDerivativeBasisFunctions(span, x, deriv) up to its loop over r
DersStart(degree, deriv) ==
    /\ calls = <<>>
    /\ calls' = <<[degree |-> degree, deriv |-> deriv, r |-> 0, k |-> 1,
                   s1 |-> 0, s2 |-> 1, accesses |-> RecurrenceAccesses(degree) \cup
                                                    {<<"a", 0, 0>>}]>>
    /\ UNCHANGED <<order, knots>>

\* the pass for r and k; s1 and s2 are swapped after it, and a is made anew with
\* s1 = 0 and s2 = 1 for the next r
DersPass ==
    LET Passed(t) ==
            calls' = <<[t EXCEPT
                !.accesses = DerivativeAccesses(t.degree, t.r, t.k, t.s1, t.s2)
                             \cup IF t.k = t.deriv /\ t.r < t.degree
                                  THEN {<<"a", 0, 0>>} ELSE {},
                !.r = IF t.k < t.deriv THEN t.r ELSE t.r + 1,
                !.k = IF t.k < t.deriv THEN t.k + 1 ELSE 1,
                !.s1 = IF t.k < t.deriv THEN t.s2 ELSE 0,
                !.s2 = IF t.k < t.deriv THEN t.s1 ELSE 1]>>
    IN  /\ calls # <<>>
        /\ calls[1].r <= calls[1].degree
        /\ Passed(calls[1])
        /\ UNCHANGED <<order, knots>>

NextDers ==
    \/ \E degree \in 1..MaxDegree, deriv \in {1, 2} : DersStart(degree, deriv)
    \/ DersPass

SpecDers == Init /\ [][NextDers]_vars

-----------------------------------------------------------------------------
(* The builder of constraints.ts: Constraints.generateConstraints(bspline,
   constraints, x) for a BSpline of degree `order` on `knots`.  The knot vectors
   are the clamped ones whose first and last span are not empty, so that no
   quotient of the recurrences has a zero denominator. *)

\* the number of samples of the monotone and convex blocks
numPoints == 100

\* BSpline.evaluateDerivative(x) for deriv = 1 and evaluateSecondDerivative(x)
\* for deriv = 2: the values at the span of x, placed from column span - degree on
BSplineEvaluateDerivative(x, deriv, degree, kn) ==
    LET Placed(span, basis) ==
            Eager([c \in 0..(Len0(kn) - degree - 2) |->
                     IF c - span + degree \in 0..degree THEN basis[c - span + degree]
                     ELSE Zero])
        At(span) == Placed(span, computeDerivativeBasisFunctions(span, x, deriv, degree, kn))
    IN  At(findSpan(x, degree, kn))

\* the block of numPoints rows over the samples xmin + (i + 1) h, each row the
\* derivative values above 1e-10, negated when negate; b is zero.  It is
\* generateMonotoneConstraints for deriv = 1 and negate = ~increasing, and
\* generateConvexityConstraints for deriv = 2 and negate = FALSE
SampledBlock(x, deriv, negate, degree, kn) ==
    LET n == Len0(kn) - degree - 1
        Rows(xmin, hh) ==
            Eager([i \in 0..(numPoints - 1) |->
               LET Row(basis) ==
                       Eager([j \in 0..(n - 1) |->
                          IF AboveTol(basis[j])
                          THEN (IF negate THEN Neg(basis[j]) ELSE basis[j])
                          ELSE Zero])
               IN  Row(BSplineEvaluateDerivative(Add(xmin, Mul(Num(i + 1), hh)),
                                                 deriv, degree, kn))])
    IN  [A |-> [rows |-> numPoints, cols |-> n,
                dense |-> Rows(MinOf(x), Div(Sub(MaxOf(x), MinOf(x)), Num(numPoints + 1)))],
         b |-> Fill(numPoints, Zero)]

\* Constraints.generateMonotoneConstraints(bspline, increasing, x)
generateMonotoneConstraints(x, increasing, degree, kn) ==
    SampledBlock(x, 1, ~increasing, degree, kn)

\* Constraints.generatePeriodicityConstraints(bspline, x): in each of the two
\* rows the entry pushed last for a column is the one the Matrix keeps
PeriodicBlock(x, degree, kn) ==
    LET n == Len0(kn) - degree - 1
        Row(start, end) ==
            Eager([j \in 0..(n - 1) |->
               IF AboveTol(end[j]) THEN Neg(end[j])
               ELSE IF AboveTol(start[j]) THEN start[j] ELSE Zero])
    IN  [A |-> [rows |-> 2, cols |-> n,
                dense |-> Arr(<<Row(BSplineEvaluate(MinOf(x), degree, kn),
                                    BSplineEvaluate(MaxOf(x), degree, kn)),
                                Row(BSplineEvaluateDerivative(MinOf(x), 1, degree, kn),
                                    BSplineEvaluateDerivative(MaxOf(x), 1, degree, kn))>>)],
         b |-> Fill(2, Zero)]

\* Constraints.generatePointwiseConstraints(bspline, constraint, x)
PointwiseBlock(q, degree, kn) ==
    LET n == Len0(kn) - degree - 1
        Row(basis) == Eager([j \in 0..(n - 1) |-> Stored(basis[j])])
    IN  [A |-> [rows |-> 1, cols |-> n,
                dense |-> Fill(1, Row(BSplineEvaluate(q.x, degree, kn)))],
         b |-> Fill(1, q.y)]

\* the types for which the switch of generateConstraints pushes a block
BuilderTypes == {"monotone", "convex", "periodic", "pointwise"}

\* the block the switch of generateConstraints pushes for the constraint q;
\* the monotone block is asked for with constraint.increasing || true
BlockOf(q, x, degree, kn) ==
    IF q.type = "monotone"
    THEN generateMonotoneConstraints(x, ("increasing" \in q.has /\ q.increasing) \/ TRUE,
                                     degree, kn)
    ELSE IF q.type = "convex" THEN SampledBlock(x, 2, FALSE, degree, kn)
    ELSE IF q.type = "periodic" THEN PeriodicBlock(x, degree, kn)
    ELSE PointwiseBlock(q, degree, kn)

\* Constraints.combineConstraints(constraints): the blocks one under the other,
\* the entries above 1e-10 kept, the columns those of the first block
combineConstraints(blocks) ==
    IF Len(blocks) = 0 THEN [A |-> zeros(0, 0), b |-> Fill(0, Zero)]
    ELSE LET RowsOf(k) == [r \in 1..blocks[k].A.rows |->
                             Eager([j \in DOMAIN blocks[k].A.dense[r - 1] |->
                                      Stored(blocks[k].A.dense[r - 1][j])])]
             BOf(k) == [r \in 1..Len0(blocks[k].b) |-> blocks[k].b[r - 1]]
             RECURSIVE Stack(_, _)
             Stack(F(_), k) == IF k = 0 THEN <<>> ELSE Stack(F, k - 1) \o F(k)
             Combined(rows) ==
                 [A |-> [rows |-> Len(rows), cols |-> blocks[1].A.cols, dense |-> Arr(rows)],
                  b |-> Arr(Stack(BOf, Len(blocks)))]
         IN  Combined(Stack(RowsOf, Len(blocks)))

\* the blocks generateConstraints pushes, in the order of the constraints
RECURSIVE BlocksOf(_, _, _, _)
BlocksOf(constraints, x, degree, kn) ==
    IF Len(constraints) = 0 THEN <<>>
    ELSE (IF Head(constraints).type \in BuilderTypes
          THEN <<BlockOf(Head(constraints), x, degree, kn)>> ELSE <<>>)
         \o BlocksOf(Tail(constraints), x, degree, kn)

\* the constraints and the data of the calls of the builder
BuilderConstraints ==
    {Monotone(TRUE), Monotone(FALSE), Typed("monotone"), Typed("convex"),
     Typed("concave"), Typed("periodic"), Pointwise(One, One, "=")}

BuilderLists == UNION {[1..k -> BuilderConstraints] : k \in 0..MaxConstraints}

BuilderData == {Arr(<<Zero, One>>), Arr(<<Num(2), Zero>>), Arr(<<One, One>>)}

InitBuilder ==
    /\ order \in 1..MaxOrder
    /\ knots \in {T \in ClampedKnots(order) :
                    /\ Lt(T[order], T[order + 1])
                    /\ Lt(T[Len0(T) - order - 2], T[Len0(T) - order - 1])}
    /\ calls = <<>>

\* Constraints.generateConstraints(new BSpline(knots, order), constraints, x):
\* the blocks pushed and the system combineConstraints returns
GenerateConstraints(constraints, x) ==
    LET Combine(blocks) ==
            calls' = Append(calls, [x |-> x, constraints |-> constraints,
                                    blocks |-> blocks,
                                    system |-> combineConstraints(blocks)])
    IN  /\ Combine(BlocksOf(constraints, x, order, knots))
        /\ UNCHANGED <<order, knots>>

NextBuilder ==
    \E cs \in BuilderLists, x \in BuilderData :
        Len(calls) < MaxCalls /\ GenerateConstraints(cs, x)

SpecBuilder == InitBuilder /\ [][NextBuilder]_vars

-----------------------------------------------------------------------------
(* The inverse on its own: inverse() called on every small square matrix, the
   matrix of no row included, which new Matrix({rows: 0, cols: 0, ...}) makes *)

MaxDim == 3

SquareMatrices ==
    UNION {{[rows |-> n, cols |-> n, dense |-> d] : d \in Arrays(Arrays(LPVals, n), n)} :
             n \in 0..MaxDim}

\* A.inverse(): whether it throws and, when it does not, what it returns
Inverse(A) ==
    /\ calls' = Append(calls, [A |-> A, threw |-> inverseThrows(A),
                               inv |-> IF inverseThrows(A) THEN null ELSE inverse(A)])
    /\ UNCHANGED <<order, knots>>

NextInverse == \E A \in SquareMatrices : Len(calls) < MaxCalls /\ Inverse(A)

SpecInverse == Init /\ [][NextInverse]_vars

\* the determinant of the square matrix of rows d, by its first row
RECURSIVE Determinant(_)
Determinant(d) ==
    LET n == Len0(d)
        Minor(c) == Eager([i \in 0..(n - 2) |-> Eager([j \in 0..(n - 2) |->
                       d[i + 1][IF j < c THEN j ELSE j + 1]])])
        RECURSIVE Expand(_)
        Expand(c) ==
            IF c < 0 THEN Zero
            ELSE Add(Expand(c - 1),
                     Mul(IF c % 2 = 0 THEN d[0][c] ELSE Neg(d[0][c]), Determinant(Minor(c))))
    IN  IF n = 0 THEN One ELSE Expand(n - 1)

\* A M is the identity
IsInverse(A, M) ==
    /\ M.rows = A.rows /\ M.cols = A.cols
    /\ \A i, j \in 0..(A.rows - 1) :
          dotProduct(A.dense[i], getColumn(M, j)) = IF i = j THEN One ELSE Zero

\* what the call c of inverse() did is what is said of it: nothing thrown, null
\* exactly for a matrix with no pivot left at some column, an inverse otherwise
InverseAsSaid(c) ==
    /\ ~c.threw
    /\ c.inv = null <=> Determinant(c.A.dense) = Zero
    /\ c.inv # null => IsInverse(c.A, c.inv)

-----------------------------------------------------------------------------
(* Claims *)

\* C1: whenever the LP solver invoked by fit ends in a failure state and returns
\* its zero vector, the coefficients of the returned result are those of
\* design.solve(y) rounded to 12 decimals, not the solver's zero vector.
C1_SolverFailureFallsBackToLeastSquares ==
    \A k \in DOMAIN calls :
        LET c == calls[k]
            ls == solve(DesignOf(c), c.y)
        IN  Returned(c) /\ c.result.lp \in SolverFailures
            => c.result.coefficients = Eager([j \in DOMAIN ls |-> Round12(ls[j])])

\* C2: a result returned by fit is self-contained: what an earlier result's
\* evaluate(x), pp.evaluate(x) and pp.evaluateSecondDerivative(x) return for a
\* given x is the same before and after any later fit call on the instance.
C2_ResultSelfContained ==
    \A k \in DOMAIN calls :
        Returned(calls[k]) =>
            \A xi \in Grid(calls[k].x) :
                Observed(calls[k].result, xi) = ObservedAtReturn(calls[k].result, xi)

\* C3: for every fit whose constraints include {type: 'monotone', increasing:
\* true} the returned spline is non-decreasing on the data range, evaluate(x1) <=
\* evaluate(x2) + 1e-6 for all x1 < x2 in [min(x), max(x)]; with increasing: false
\* the reverse inequality holds.
C3_MonotoneOnDataRange ==
    \A k \in DOMAIN calls :
        LET c == calls[k]
            r == c.result
        IN  k = Len(calls) /\ Returned(c) =>
            \A x1, x2 \in Grid(c.x) : Lt(x1, x2) =>
                /\ Has(c, IsIncreasing) =>
                       LeWithin(evaluate(r, x1), evaluate(r, x2), 1000000)
                /\ Has(c, IsDecreasing) =>
                       LeWithin(evaluate(r, x2), evaluate(r, x1), 1000000)

\* C4: for every fit with a pointwise constraint {x: x*, y: y*, operator: op} the
\* returned spline honours it within 1e-6: |evaluate(x*) - y*| < 1e-6 for '=',
\* evaluate(x*) >= y* - 1e-6 for '>=', evaluate(x*) <= y* + 1e-6 for '<='.
C4_PointwiseHonoured ==
    \A k \in DOMAIN calls :
        LET c == calls[k]
            r == c.result
        IN  k = Len(calls) /\ Returned(c) =>
            \A i \in DOMAIN ConstraintsOf(c) :
                LET q == ConstraintsOf(c)[i]
                    below == LtWithin(evaluate(r, q.x), q.y, 1000000)
                    above == LtWithin(q.y, evaluate(r, q.x), 1000000)
                IN  /\ IsPointwise(q, "=") => below /\ above
                    /\ IsPointwise(q, ">=") => LeWithin(q.y, evaluate(r, q.x), 1000000)
                    /\ IsPointwise(q, "<=") => LeWithin(evaluate(r, q.x), q.y, 1000000)

\* C5: for every fit with a {type: 'periodic'} constraint the returned spline
\* takes the same value at both ends of the data range:
\* |evaluate(min(x)) - evaluate(max(x))| < 1e-10.
C5_PeriodicEndsAgree ==
    \A k \in DOMAIN calls :
        LET c == calls[k]
            r == c.result
        IN  k = Len(calls) /\ Returned(c) /\ Has(c, IsPeriodic)
            => BelowTol(evaluate(r, MinOf(c.x)), evaluate(r, MaxOf(c.x)))

\* C6: for every fit with a {type: 'convex'} constraint evaluateSecondDerivative(xi)
\* >= -1e-6 at every xi strictly inside (min(x), max(x)); for {type: 'concave'} or
\* {type: 'convex', convex: false} evaluateSecondDerivative(xi) <= 1e-6 there.
C6_SecondDerivativeSign ==
    \A k \in DOMAIN calls :
        LET c == calls[k]
            r == c.result
        IN  k = Len(calls) /\ Returned(c) =>
            \A xi \in Grid(c.x) : Lt(MinOf(c.x), xi) /\ Lt(xi, MaxOf(c.x)) =>
                /\ Has(c, IsConvex) =>
                       LeWithin(Zero, evaluateSecondDerivative(r, xi), 1000000)
                /\ Has(c, IsConcave) =>
                       LeWithin(evaluateSecondDerivative(r, xi), Zero, 1000000)

\* C7: an unconstrained fit with default knot generation interpolates the data:
\* when n > order + 1 and x has no duplicate values the residuals' sum of squares
\* is below 1e-5.  Stated here for x in increasing order.
C7_UnconstrainedFitInterpolates ==
    \A k \in DOMAIN calls :
        LET c == calls[k]
        IN  /\ Returned(c)
            /\ ConstraintsOf(c) = <<>> /\ "knots" \notin c.options.has
            /\ Len0(c.x) > c.result.order + 1
            /\ NoDuplicates(c.x)
            /\ \A i \in 0..(Len0(c.x) - 2) : Lt(c.x[i], c.x[i + 1])
            => BelowFraction(Sum(Eager([i \in DOMAIN c.y |->
                   Mul(c.result.fit.residuals[i], c.result.fit.residuals[i])])), 100000)

\* C8: fit fails with an error and returns no result whenever len(x) # len(y),
\* whenever x has fewer than 2 points (empty x and y included), and whenever
\* options.order is supplied and is < 1.
C8_InvalidInputFails ==
    \A k \in DOMAIN calls :
        LET c == calls[k]
        IN  \/ Len0(c.x) # Len0(c.y)
            \/ Len0(c.x) < 2
            \/ "order" \in c.options.has /\ c.options.order < 1
            => ~Returned(c) /\ c.result = NoResult

\* a call with two points and order 0 has been made, and it threw
C8_Witness ==
    \E k \in DOMAIN calls :
        /\ Len0(calls[k].x) = 2 /\ Len0(calls[k].y) = 2
        /\ "order" \in calls[k].options.has /\ calls[k].options.order = 0
        /\ calls[k].threw = "Order must be an integer greater than or equal to 1."

\* C9: when options.knots is supplied, fit fails with an error if knots.length <
\* 2 * order or if knots[i] > knots[i+1] for some i; when a fit with supplied
\* knots succeeds, result.knots equals the supplied sequence element for element.
C9_SuppliedKnots ==
    \A k \in DOMAIN calls :
        LET c == calls[k]
            kn == c.options.knots
        IN  "knots" \in c.options.has =>
            /\ (\/ Len0(kn) < 2 * OrderFor(c.options)
                \/ \E i \in 0..(Len0(kn) - 2) : Gt(kn[i], kn[i + 1]))
               => ~Returned(c)
            /\ Returned(c) =>
                  /\ Len0(c.result.knots) = Len0(kn)
                  /\ \A i \in DOMAIN kn : c.result.knots[i] = kn[i]

\* a fit with supplied knots has succeeded, with knots that are not the ones
\* generateKnots would have made
C9_Witness ==
    \E k \in DOMAIN calls :
        /\ "knots" \in calls[k].options.has
        /\ Returned(calls[k])
        /\ calls[k].options.knots # generateKnots(calls[k].x, calls[k].result.order)

\* C10: a constraint whose type is outside {monotone, convex, concave, periodic,
\* pointwise}, or a pointwise constraint whose operator is outside {'=', '<=',
\* '>='}, makes fit fail with an error, wherever it stands in the list.
C10_UnsupportedConstraintFails ==
    \A k \in DOMAIN calls :
        LET c == calls[k]
        IN  (\E i \in DOMAIN ConstraintsOf(c) :
                LET q == ConstraintsOf(c)[i]
                IN  \/ q.type \notin SupportedTypes
                    \/ q.type = "pointwise" /\ "operator" \in q.has
                       /\ q.operator \notin SupportedOperators)
            => ~Returned(c)

\* a call that returned with knots fit generated
GeneratedKnots(c) == Returned(c) /\ "knots" \notin c.options.has

\* C11: when fit generates the knots for x of length n and order k, the first
\* k+1 knots equal x[0], the last k+1 equal x[n-1], and between them there are
\* exactly max(0, n-k-1) interior knots, each strictly inside (x[0], x[n-1]) and
\* in non-decreasing order.
C11_GeneratedKnots ==
    \A j \in DOMAIN calls :
        LET c == calls[j]
            T == c.result.knots
            k == c.result.order
            n == Len0(c.x)
            interior == IF n - k - 1 > 0 THEN n - k - 1 ELSE 0
        IN  GeneratedKnots(c) =>
            /\ Len0(T) = 2 * (k + 1) + interior
            /\ \A i \in 0..k : T[i] = c.x[0] /\ T[Len0(T) - 1 - i] = c.x[n - 1]
            /\ \A i \in (k + 1)..(k + interior) :
                  /\ Lt(c.x[0], T[i]) /\ Lt(T[i], c.x[n - 1])
                  /\ i < k + interior => Le(T[i], T[i + 1])

\* C12: the knot vector of every result returned by fit is non-decreasing,
\* T[i] <= T[i+1] for all i, for supplied knots and for knots generated from
\* any x that fit accepts, sorted or not.
C12_KnotsNonDecreasing ==
    \A j \in DOMAIN calls :
        LET T == calls[j].result.knots
        IN  Returned(calls[j]) => \A i \in 0..(Len0(T) - 2) : Le(T[i], T[i + 1])

\* C13: in every result returned by fit, from the least-squares path or from
\* the LP path, coefficients.length = knots.length - order - 1, fit.coefficients
\* is the same vector as coefficients, and fit.fitted and fit.residuals both have
\* length len(x).
C13_ResultShape ==
    \A j \in DOMAIN calls :
        LET c == calls[j]
            r == c.result
        IN  Returned(c) =>
            /\ Len0(r.coefficients) = Len0(r.knots) - r.order - 1
            /\ r.fit.coefficients = r.coefficients
            /\ Len0(r.fit.fitted) = Len0(c.x)
            /\ Len0(r.fit.residuals) = Len0(c.x)

\* a fit has returned the solver's optimal vector, with fewer constraint rows
\* than coefficients, and it is not the zero vector
C13_Witness ==
    \E j \in DOMAIN calls :
        LET r == calls[j].result
        IN  /\ Returned(calls[j]) /\ r.lp = "optimal"
            /\ \E i \in DOMAIN r.coefficients : r.coefficients[i] # Zero
            /\ Len0(r.coefficients) = Len0(r.knots) - r.order - 1
            /\ Len0(r.fit.fitted) = 2

\* C14: for any sequence of fit calls on one instance, each returned result's
\* order equals that call's options.order when supplied and 4 otherwise: an
\* order used by an earlier call never carries over to a later call.
C14_OrderPerCall ==
    \A j \in DOMAIN calls :
        LET c == calls[j]
        IN  Returned(c) =>
            c.result.order = (IF "order" \in c.options.has THEN c.options.order ELSE 4)

\* a fit with order 2 has returned, then a fit without order on the same
\* instance has returned
C14_Witness ==
    /\ Len(calls) = 2
    /\ Returned(calls[1]) /\ "order" \in calls[1].options.has /\ calls[1].result.order = 2
    /\ Returned(calls[2]) /\ "order" \notin calls[2].options.has
    /\ calls[2].result.order = 4 /\ order = 4

C16_QuantileOrdersFits ==
    \A j, k \in DOMAIN calls :
        LET c == calls[j]
            d == calls[k]
        IN  /\ Returned(c) /\ Returned(d) /\ SameButTau(c, d)
            /\ IncreasingAtTau(d, Frac(1, 2))
            => /\ IncreasingAtTau(c, Frac(1, 10))
                  => Lt(Sum(c.result.fit.fitted), Sum(d.result.fit.fitted))
               /\ IncreasingAtTau(c, Frac(9, 10))
                  => Gt(Sum(c.result.fit.fitted), Sum(d.result.fit.fitted))

\* C17: partition of unity: for every clamped non-decreasing knot vector and
\* every x in [T[order], T[N]], the order+1 values of the basis recurrence at the
\* span of x sum to 1 (within 1e-10), and so does the row of the design matrix.
C17_PartitionOfUnity ==
    \A j \in DOMAIN calls :
        InActiveInterval(calls[j].x) =>
            /\ BelowTol(Sum(calls[j].basis), One)
            /\ BelowTol(Sum(calls[j].row), One)

\* C18: in LPSolver.solve with p <= N, at the start of every pass of the main
\* loop (after the initialisation and after every pivot) the entries of basis
\* are pairwise distinct column indices in 0..N-1, and nonbasis holds exactly the
\* column indices that are not in basis, each once.
C18_BasisPartitionsColumns ==
    (AtLoopStart /\ calls[1].A.rows <= calls[1].A.cols) =>
        LET lp == calls[1]
            m == lp.A.rows
            n == lp.A.cols
        IN  /\ \A i \in 0..(m - 1) : lp.basis[i] \in 0..(n - 1)
            /\ \A i, j \in 0..(m - 1) : lp.basis[i] = lp.basis[j] => i = j
            /\ \A j \in 0..(n - 1) :
                  Cardinality({k \in 1..Len(lp.nonbasis) : lp.nonbasis[k] = j})
                     = IF \E i \in 0..(m - 1) : lp.basis[i] = j THEN 0 ELSE 1
            /\ \A k \in 1..Len(lp.nonbasis) : lp.nonbasis[k] \in 0..(n - 1)

C20_OptimalReturnMinimises ==
    (LPReturned /\ calls[1].status = "optimal") =>
        LET lp == calls[1]
        IN  /\ DOMAIN lp.x = 0..(lp.A.cols - 1)
            /\ LPFeasible(lp.A, lp.b, lp.x)
            /\ \A z \in LPCandidates(lp.A.cols) :
                  LPFeasible(lp.A, lp.b, z) => Le(dotProduct(lp.c, lp.x), dotProduct(lp.c, z))

\* the solver was run for the call c, which returned: at least one constraint
\* row was generated
SolverRan(c) == Returned(c) /\ c.result.lp \in {"optimal"} \cup SolverFailures

\* two calls that differ at most in the data values y, of one length
SameButY(c, d) ==
    c.x = d.x /\ Len0(c.y) = Len0(d.y) /\ c.options.has = d.options.has
    /\ c.result.order = d.result.order /\ c.result.knots = d.result.knots
    /\ ConstraintsOf(c) = ConstraintsOf(d)

SpanHolds(c) ==
    /\ order <= c.span /\ c.span <= NumCoefficients - 1
    /\ Le(knots[c.span], c.x) /\ Lt(c.x, knots[c.span + 1])

\* C22 as stated: for a non-decreasing knot vector T with N >= order + 1 and any
\* x, findSpan returns order if x <= T[order], N-1 if x >= T[N], and otherwise the
\* index s with order <= s <= N-1 and T[s] <= x < T[s+1].
C22_FindSpanAsStated ==
    \A j \in DOMAIN calls :
        /\ Le(calls[j].x, knots[order]) => calls[j].span = order
        /\ Ge(calls[j].x, knots[NumCoefficients]) => calls[j].span = NumCoefficients - 1
        /\ (Gt(calls[j].x, knots[order]) /\ Lt(calls[j].x, knots[NumCoefficients]))
              => SpanHolds(calls[j])

\* C22: for a non-decreasing knot vector T with N >= order + 1 and any x,
\* findSpan returns N-1 if x >= T[N], else order if x <= T[order], and otherwise
\* the index s with order <= s <= N-1 and T[s] <= x < T[s+1].
C22_FindSpan ==
    \A j \in DOMAIN calls :
        IF Ge(calls[j].x, knots[NumCoefficients])
        THEN calls[j].span = NumCoefficients - 1
        ELSE IF Le(calls[j].x, knots[order])
        THEN calls[j].span = order
        ELSE SpanHolds(calls[j])

\* a span found by the search among more than two, above the first
C22_Witness ==
    /\ Len(calls) = 1
    /\ NumCoefficients - 1 > order + 1
    /\ Gt(calls[1].x, knots[order]) /\ Lt(calls[1].x, knots[NumCoefficients])
    /\ calls[1].span > order
    /\ SpanHolds(calls[1])

\* C23: for every knot vector that passes the knot validation of fit (length
\* >= 2*order, non-decreasing) and every x, the construction of the design matrix
\* reads the knot array only at indices in 0..|T|-1 and produces at least one
\* coefficient column.
C23_KnotReadsInRange ==
    \A j \in DOMAIN calls :
        KnotsAccepted(calls[j]) =>
            /\ \A i \in DOMAIN calls[j].x :
                  KnotReads(calls[j].x[i], OrderFor(calls[j].options), calls[j].options.knots)
                     \subseteq DOMAIN calls[j].options.knots
            /\ Len0(calls[j].options.knots) - OrderFor(calls[j].options) - 1 >= 1

\* C24: a fit call that throws (length mismatch, fewer than two points, order < 1,
\* invalid knots, unsupported constraint type or operator) leaves the instance's
\* order and knots exactly as they were before the call.
C24_ThrowLeavesInstance ==
    [][(Len(calls') = Len(calls) + 1 /\ calls'[Len(calls')].threw # NoError)
          => (order' = order /\ knots' = knots)]_vars

\* C25: in computeDerivativeBasisFunctions(span, x, d) for d in {1, 2} and every
\* degree >= 1, degree < d included, every index used to read or write the
\* tables ndu and a lies within 0..degree, for every r in 0..degree.
C25_TableIndicesInRange ==
    calls # <<>> =>
        \A t \in calls[1].accesses :
            /\ t[2] \in 0..calls[1].degree
            /\ t[3] \in 0..calls[1].degree
            /\ t[1] = "a" => t[2] \in 0..1

\* the last pass of the second derivative at degree 1 has been made
C25_Witness ==
    /\ calls # <<>>
    /\ calls[1].degree = 1 /\ calls[1].deriv = 2
    /\ calls[1].r = 2

\* C26: basis evaluation never divides by a zero denominator: in every
\* implementation of the recurrence the quotient is taken as 0 when coincident
\* knots make the denominator 0, so all basis values are finite for any
\* non-decreasing knot vector with repeated knots.
C26_BasisValuesFinite ==
    \A j \in DOMAIN calls :
        /\ \A i \in DOMAIN calls[j].basis : ~IsNaN(calls[j].basis[i])
        /\ \A i \in DOMAIN calls[j].row : ~IsNaN(calls[j].row[i])

\* the derivative row B'(xi) at the i-th sample of the data x, entries within
\* 1e-10 of zero left out
DerivativeRowAt(x, i) ==
    LET Row(basis) == Eager([j \in DOMAIN basis |-> Stored(basis[j])])
    IN  Row(BSplineEvaluateDerivative(
               Add(MinOf(x), Mul(Num(i + 1), Div(Sub(MaxOf(x), MinOf(x)), Num(numPoints + 1)))),
               1, order, knots))

\* the constraints of the call c are monotone ones that say which way
AllMonotone(c) ==
    \A k \in DOMAIN c.constraints : c.constraints[k].type = "monotone"
                                    /\ "increasing" \in c.constraints[k].has

\* C27: every row r generated for a monotone constraint has b = 0 and is stored
\* so that r.c <= 0 holds exactly when the spline is non-decreasing (increasing:
\* true) or non-increasing (increasing: false) at the row's sample, that is, the
\* row is -B'(xi) or +B'(xi); the block for increasing: false is the element-wise
\* negation of the block for increasing: true.
C27_MonotoneRowsSigned ==
    \A n \in DOMAIN calls :
        AllMonotone(calls[n]) =>
            /\ \A k \in DOMAIN calls[n].blocks :
                  /\ \A i \in DOMAIN calls[n].blocks[k].b : calls[n].blocks[k].b[i] = Zero
                  /\ \A i \in 0..(calls[n].blocks[k].A.rows - 1) :
                        \A j \in 0..(calls[n].blocks[k].A.cols - 1) :
                           calls[n].blocks[k].A.dense[i][j] =
                              IF calls[n].constraints[k].increasing
                              THEN Neg(DerivativeRowAt(calls[n].x, i)[j])
                              ELSE DerivativeRowAt(calls[n].x, i)[j]
            /\ \A k, l \in DOMAIN calls[n].blocks :
                  calls[n].constraints[k].increasing # calls[n].constraints[l].increasing =>
                     \A i \in 0..(calls[n].blocks[k].A.rows - 1) :
                        \A j \in 0..(calls[n].blocks[k].A.cols - 1) :
                           calls[n].blocks[l].A.dense[i][j] =
                              Neg(calls[n].blocks[k].A.dense[i][j])

\* B(xmin) - B(xmax) for deriv = 0 and B'(xmin) - B'(xmax) for deriv = 1, over
\* the data x of a call
EndsDifference(x, deriv) ==
    LET Diff(start, end) == Eager([j \in DOMAIN start |-> Sub(start[j], end[j])])
    IN  IF deriv = 0
        THEN Diff(BSplineEvaluate(MinOf(x), order, knots),
                  BSplineEvaluate(MaxOf(x), order, knots))
        ELSE Diff(BSplineEvaluateDerivative(MinOf(x), 1, order, knots),
                  BSplineEvaluateDerivative(MaxOf(x), 1, order, knots))

\* C28: a periodic constraint contributes the value equality
\* sum_j (B_j(xmin) - B_j(xmax)) c_j = 0 and the first-derivative equality
\* sum_j (B'_j(xmin) - B'_j(xmax)) c_j = 0, and each equality appears in (A, b)
\* as two opposite-sign inequality rows with right-hand side 0.
C28_PeriodicRows ==
    \A n \in DOMAIN calls :
        (Len(calls[n].constraints) = 1 /\ calls[n].constraints[1].type = "periodic") =>
            LET A == calls[n].system.A
                Holds(row) == \E i \in 0..(A.rows - 1) : A.dense[i] = row
                Negated(row) == Eager([j \in DOMAIN row |-> Neg(row[j])])
            IN  /\ A.rows = 4
                /\ \A i \in DOMAIN calls[n].system.b : calls[n].system.b[i] = Zero
                /\ \A deriv \in {0, 1} :
                      /\ Holds(EndsDifference(calls[n].x, deriv))
                      /\ Holds(Negated(EndsDifference(calls[n].x, deriv)))

\* the rows of the blocks before block k
RECURSIVE RowsBefore(_, _)
RowsBefore(blocks, k) ==
    IF k <= 1 THEN 0 ELSE RowsBefore(blocks, k - 1) + blocks[k - 1].A.rows

\* C29: the assembled constraint system always has A.cols = N and A.rows =
\* len(b) = the sum of the blocks' row counts, each block's rows placed in input
\* order at an offset equal to the running row total; an empty constraint list
\* yields a 0 x N matrix and an empty b.
C29_AssembledSystem ==
    \A n \in DOMAIN calls :
        LET A == calls[n].system.A
            blocks == calls[n].blocks
        IN  /\ A.cols = NumCoefficients
            /\ A.rows = Len0(calls[n].system.b)
            /\ A.rows = RowsBefore(blocks, Len(blocks) + 1)
            /\ Len0(A.dense) = A.rows
            /\ \A k \in DOMAIN blocks : \A i \in 0..(blocks[k].A.rows - 1) :
                  /\ A.dense[RowsBefore(blocks, k) + i] = blocks[k].A.dense[i]
                  /\ calls[n].system.b[RowsBefore(blocks, k) + i] = blocks[k].b[i]
            /\ Len(calls[n].constraints) = 0 => (A.rows = 0 /\ A.cols = NumCoefficients)

\* C30 as stated: for every square matrix A, inverse() returns either null,
\* exactly when at some column the largest remaining pivot candidate is below
\* 1e-10, or a matrix M with A M = I; it never throws for square input.
C30_InverseAsStated ==
    \A n \in DOMAIN calls : InverseAsSaid(calls[n])

\* C30: for every square matrix A with at least one row, inverse() returns
\* either null, exactly when at some column the largest remaining pivot
\* candidate is below 1e-10, or a matrix M with A M = I, and does not throw.
C30_Inverse ==
    \A n \in DOMAIN calls : calls[n].A.rows >= 1 => InverseAsSaid(calls[n])

\* the inverse of a matrix of three rows whose first pivot is found below the
\* diagonal
C30_Witness ==
    /\ Len(calls) = 1
    /\ calls[1].A.rows = 3
    /\ calls[1].A.dense[0][0] = Zero
    /\ calls[1].inv # null
    /\ IsInverse(calls[1].A, calls[1].inv)

====
